---- MODULE Spec2Model ----
(***************************************************************************)
(* A model of the schema-driven form interpreter:                          *)
(*   src/src/components/tambo/schema-form.tsx  (condition language,        *)
(*       visibility, field validation, submission, the SchemaForm state)   *)
(*   src/unnamed/part_001  (runtime-schema-form and the schema version     *)
(*       gate)                                                             *)
(*   src/unnamed/part_002  (runtime-schema: loadAndValidateJson)           *)
(*                                                                         *)
(* JavaScript values are tagged records, one shape per type, so that the   *)
(* strict equality of the code (===) is type sensitive in the model too.   *)
(* Strings are sequences of one-character strings, so that trim,           *)
(* startsWith, includes and the version pattern are computed character by  *)
(* character as the code computes them.                                    *)
(***************************************************************************)
EXTENDS Integers, Sequences, FiniteSets, TLC

VARIABLES
    \* ---- the pure-function harness (SpecCond, SpecVersion) ----
    condIn,       \* the condition handed to evaluateCondition / resolveVisibility
    fallbackIn,   \* the fallback handed to resolveVisibility
    ctxIn,        \* the ConditionEvalContext {values, context}
    evalOut,      \* result of evaluateCondition, or NotRun
    visOut,       \* result of resolveVisibility, or NotRun
    verIn,        \* the raw version string handed to getSchemaVersionInfo
    verOut,       \* its SchemaVersionInfo, or NotRun
    \* ---- the mounted SchemaForm (Spec) ----
    props,        \* the props SchemaForm was called with
    view,         \* what SchemaForm renders: "schema-error" or "form"
    formData,     \* useState(defaultValues)
    errors,       \* useState<Record<string,string>>({})
    suggestions,  \* useState<Record<string,FieldSuggestion[]>>({})
    submitted,    \* useState(false)
    submitStatus, \* useState("idle")
    sendCount,    \* number of calls of sendThreadMessage so far
    lastSent,     \* the latest call: its payload, the JSON and the message text
                  \* built from it, and the submitted flag the handler had in
                  \* its evalContext; or NotRun
    inflight,     \* the calls of sendThreadMessage not yet settled, oldest first
    lastEvent,    \* the handler that produced this state (observation only)
    \* ---- the pure-function harness of the field functions (SpecField) ----
    fieldIn,      \* the field handed to validateFieldValue / normalizeSubmissionValue
    valueIn,      \* the raw value handed to them
    validOut,     \* result of validateFieldValue, or NotRun
    normOut,      \* result of normalizeSubmissionValue, or NotRun
    recvIn,       \* the value handed to closestOption
    optsIn,       \* the options handed to closestOption
    closestOut,   \* result of closestOption, or NotRun
    \* ---- the pure-function harness of loadAndValidateJson (SpecFetch) ----
    urlIn,        \* the url handed to loadAndValidateJson
    worldIn,      \* what the network does with the request
    fetchOut,     \* how the returned promise settles, or NotRun
    \* ---- RuntimeSchemaForm (SpecLoader) ----
    url,          \* the debounced, trimmed schemaUrl the last effect ran with
    loadState,    \* useState<LoadState>
    requestIdRef, \* useRef(0)
    pending,      \* the calls of loadAndValidateJson not yet settled
    loadEvent     \* what produced this state (observation only)

condVars == <<condIn, fallbackIn, ctxIn, evalOut, visOut>>
verVars  == <<verIn, verOut>>
formVars == <<props, view, formData, errors, suggestions, submitted, submitStatus,
              sendCount, lastSent, inflight, lastEvent>>
fieldVars == <<fieldIn, valueIn, validOut, normOut, recvIn, optsIn, closestOut>>
fetchVars == <<urlIn, worldIn, fetchOut>>
loadVars  == <<url, loadState, requestIdRef, pending, loadEvent>>
vars     == <<condIn, fallbackIn, ctxIn, evalOut, visOut, verIn, verOut,
              props, view, formData, errors, suggestions, submitted, submitStatus,
              sendCount, lastSent, inflight, lastEvent,
              fieldIn, valueIn, validOut, normOut, recvIn, optsIn, closestOut, urlIn, worldIn, fetchOut,
              url, loadState, requestIdRef, pending, loadEvent>>

NotRun == [t |-> "not-run"]

(***************************************************************************)
(* Strings                                                                 *)
(***************************************************************************)
S_empty     == <<>>
S_blank     == <<" ">>
S_a         == <<"a">>
S_b         == <<"b">>
S_c         == <<"c">>
S_yes       == <<"y", "e", "s">>
S_no        == <<"n", "o">>
S_one       == <<"1">>
S_context_  == <<"c", "o", "n", "t", "e", "x", "t", ".">>
S_submitted == <<"s", "u", "b", "m", "i", "t", "t", "e", "d">>
S_equals    == <<"e", "q", "u", "a", "l", "s">>
S_notEquals == <<"n", "o", "t", "E", "q", "u", "a", "l", "s">>
S_in        == <<"i", "n">>
S_notIn     == <<"n", "o", "t", "I", "n">>
S_exists    == <<"e", "x", "i", "s", "t", "s">>
S_truthy    == <<"t", "r", "u", "t", "h", "y">>
S_falsy     == <<"f", "a", "l", "s", "y">>
S_and       == <<"a", "n", "d">>
S_or        == <<"o", "r">>
S_not       == <<"n", "o", "t">>
S_bogus     == <<"x", "o", "r">>

\* String.prototype.trim: strip leading and trailing white space.
IsSpace(ch) == ch = " "

RECURSIVE TrimLeft(_)
TrimLeft(s) ==
    IF s # <<>> /\ IsSpace(Head(s)) THEN TrimLeft(Tail(s)) ELSE s

RECURSIVE TrimRight(_)
TrimRight(s) ==
    IF s # <<>> /\ IsSpace(s[Len(s)]) THEN TrimRight(SubSeq(s, 1, Len(s) - 1)) ELSE s

trim(s) == TrimRight(TrimLeft(s))

\* String.prototype.startsWith
startsWith(s, prefix) ==
    /\ Len(s) >= Len(prefix)
    /\ SubSeq(s, 1, Len(prefix)) = prefix

\* String.prototype.includes, for a one-character needle
includes(s, ch) == \E i \in 1..Len(s) : s[i] = ch

\* String.prototype.slice(n)
slice(s, n) == SubSeq(s, n + 1, Len(s))

(***************************************************************************)
(* JavaScript values                                                       *)
(***************************************************************************)
JsUndefined == [t |-> "undefined"]
JsNull      == [t |-> "null"]
JsNaN       == [t |-> "nan"]        \* typeof NaN === "number"
JsInf(neg)  == [t |-> "infinity", neg |-> neg]   \* Infinity, -Infinity
JsStr(s)    == [t |-> "string", s |-> s]
JsNum(n)    == [t |-> "number", n |-> n]
JsBool(b)   == [t |-> "boolean", b |-> b]
JsArr(xs)   == [t |-> "array", items |-> xs]
JsObj(ps)   == [t |-> "object", props |-> ps]

\* obj.key for a plain object
Get(obj, key) ==
    IF key \in DOMAIN obj.props THEN obj.props[key] ELSE JsUndefined

\* a === b; objects and arrays are equal only by identity, which a value read
\* from the form state never has with a literal of the condition
StrictEq(a, b) ==
    /\ a.t \notin {"nan", "array", "object"}
    /\ b.t \notin {"nan", "array", "object"}
    /\ a = b

\* Array.prototype.includes (SameValueZero: NaN is found, objects by identity)
ArrIncludes(xs, v) ==
    \E i \in 1..Len(xs) : v.t \notin {"array", "object"} /\ xs[i] = v

\* Boolean(v)
ToBoolean(v) ==
    CASE v.t = "undefined" -> FALSE
      [] v.t = "null"      -> FALSE
      [] v.t = "nan"       -> FALSE
      [] v.t = "boolean"   -> v.b
      [] v.t = "number"    -> v.n # 0
      [] v.t = "string"    -> v.s # <<>>
      [] OTHER             -> TRUE

(***************************************************************************)
(* The condition language (schema-form.tsx 306-486)                        *)
(***************************************************************************)
\* ConditionEvalContext
EvalContext(values, context) == [values |-> values, context |-> context]

isPlainObject(value) == value.t = "object"

\* obj[key] for a Record<string, unknown>
Lookup(map, key) == IF key \in DOMAIN map THEN map[key] ELSE JsUndefined

getRefValue(ref, evalContext) ==
    IF startsWith(ref, S_context_)
    THEN Lookup(evalContext.context, slice(ref, Len(S_context_)))
    ELSE IF includes(ref, ".")
         THEN JsUndefined
         ELSE Lookup(evalContext.values, ref)

isDefinedForCondition(value) ==
    IF value.t \in {"undefined", "null"} THEN FALSE
    ELSE IF value.t = "string" THEN trim(value.s) # <<>>
    ELSE TRUE

\* typeof condition.ref !== "string" || condition.ref.trim() === ""
refIsMissing(condition) ==
    LET ref == Get(condition, "ref")
    IN  ref.t # "string" \/ trim(ref.s) = <<>>

\* !Array.isArray(condition[key]) || condition[key].length === 0
listIsMissing(condition, key) ==
    LET xs == Get(condition, key)
    IN  xs.t # "array" \/ Len(xs.items) = 0

RefOps  == {S_equals, S_notEquals, S_in, S_notIn, S_exists, S_truthy, S_falsy}
ListOps == {S_and, S_or}

\* the seven branches that read a ref (lines 359-426)
evalRefOp(op, condition, evalContext) ==
    IF refIsMissing(condition) THEN TRUE
    ELSE LET v == getRefValue(Get(condition, "ref").s, evalContext)
         IN  CASE op = S_equals    -> StrictEq(v, Get(condition, "value"))
               [] op = S_notEquals -> ~StrictEq(v, Get(condition, "value"))
               [] op = S_in        ->
                    IF listIsMissing(condition, "values") THEN TRUE
                    ELSE ArrIncludes(Get(condition, "values").items, v)
               [] op = S_notIn     ->
                    IF listIsMissing(condition, "values") THEN TRUE
                    ELSE ~ArrIncludes(Get(condition, "values").items, v)
               [] op = S_exists    -> isDefinedForCondition(v)
               [] op = S_truthy    -> ToBoolean(v)
               [] op = S_falsy     -> ~ToBoolean(v)

RECURSIVE evaluateCondition(_, _)

\* a mutant of evalListOp: the emptiness guard of and/or is dropped
evalListOp_noGuard(op, condition, evalContext) ==
    LET xs   == Get(condition, "conditions")
        kids == IF xs.t = "array" THEN xs.items ELSE <<>>
    IN  IF op = S_and
        THEN \A i \in 1..Len(kids) : evaluateCondition(kids[i], evalContext)
        ELSE \E i \in 1..Len(kids) : evaluateCondition(kids[i], evalContext)

\* a mutant of evalListOp: "or" is computed as "and"
evalListOp_orAsAnd(op, condition, evalContext) ==
    IF listIsMissing(condition, "conditions") THEN TRUE
    ELSE LET kids == Get(condition, "conditions").items
         IN  \A i \in 1..Len(kids) : evaluateCondition(kids[i], evalContext)

\* the branches "and" and "or" (lines 428-450): every / some over the children
evalListOp(op, condition, evalContext) ==
    IF listIsMissing(condition, "conditions") THEN TRUE
    ELSE LET kids == Get(condition, "conditions").items
         IN  IF op = S_and
             THEN \A i \in 1..Len(kids) : evaluateCondition(kids[i], evalContext)
             ELSE \E i \in 1..Len(kids) : evaluateCondition(kids[i], evalContext)

\* the branch "not" (lines 452-459)
evalNot(condition, evalContext) ==
    IF Get(condition, "condition") = JsUndefined THEN TRUE
    ELSE ~evaluateCondition(Get(condition, "condition"), evalContext)

\* No branch throws on the values modelled here, so the catch arm (463-466),
\* which also returns true, is never taken.
evaluateCondition(condition, evalContext) ==
    IF condition = JsUndefined THEN TRUE
    ELSE IF condition.t = "boolean" THEN condition.b
    ELSE IF ~isPlainObject(condition) THEN TRUE
    ELSE LET op == Get(condition, "op")
         IN  IF op.t # "string" THEN TRUE
             ELSE IF op.s \in RefOps THEN evalRefOp(op.s, condition, evalContext)
             ELSE IF op.s \in ListOps THEN evalListOp(op.s, condition, evalContext)
             ELSE IF op.s = S_not THEN evalNot(condition, evalContext)
             ELSE TRUE

S_hidden   == <<"h", "i", "d", "d", "e", "n">>
S_disabled == <<"d", "i", "s", "a", "b", "l", "e", "d">>

Visibility(r, d) == [shouldRender |-> r, disabled |-> d]

\* a mutant of resolveVisibility: the default fallback is "disabled"
resolveVisibility_defaultDisabled(condition, fallback, evalContext) ==
    IF evaluateCondition(condition, evalContext) THEN Visibility(TRUE, FALSE)
    ELSE IF fallback \in {JsUndefined, JsNull, JsStr(S_disabled)}
         THEN Visibility(TRUE, TRUE)
         ELSE Visibility(FALSE, FALSE)

resolveVisibility(condition, fallback, evalContext) ==
    IF evaluateCondition(condition, evalContext) THEN Visibility(TRUE, FALSE)
    ELSE LET fallbackBehavior ==
                 IF fallback \in {JsUndefined, JsNull} THEN JsStr(S_hidden) ELSE fallback
         IN  IF fallbackBehavior = JsStr(S_disabled)
             THEN Visibility(TRUE, TRUE)
             ELSE Visibility(FALSE, FALSE)

(***************************************************************************)
(* Inputs of the condition harness                                         *)
(***************************************************************************)
\* longest values / conditions list tried
MaxArity == 2

SeqsUpTo(S, n) == UNION {[1..k -> S] : k \in 1..n}

S_ctxSubmitted == S_context_ \o S_submitted
S_dotted       == <<"a", ".", "b">>

C_ref1(op, ref)         == JsObj([op |-> JsStr(op), ref |-> JsStr(ref)])
C_ref2(op, ref, v)      == JsObj([op |-> JsStr(op), ref |-> JsStr(ref), value |-> v])
C_refN(op, ref, vs)     == JsObj([op |-> JsStr(op), ref |-> JsStr(ref), values |-> JsArr(vs)])
C_list(op, kids)        == JsObj([op |-> JsStr(op), conditions |-> JsArr(kids)])
C_not(kid)              == JsObj([op |-> JsStr(S_not), condition |-> kid])

SampleRefs      == {S_a, S_b, S_ctxSubmitted}
CondValueSample == {JsStr(S_yes), JsStr(S_one), JsNum(1), JsBool(TRUE), JsNull}
ListValueSample == {JsStr(S_yes), JsNum(1), JsBool(TRUE)}

WfLeaves ==
    {JsUndefined, JsBool(TRUE), JsBool(FALSE)}
    \cup {C_ref2(op, r, v) : op \in {S_equals, S_notEquals}, r \in SampleRefs,
                             v \in CondValueSample}
    \cup {C_refN(op, r, vs) : op \in {S_in, S_notIn}, r \in SampleRefs,
                              vs \in SeqsUpTo(ListValueSample, MaxArity)}
    \cup {C_ref1(op, r) : op \in {S_exists, S_truthy, S_falsy}, r \in SampleRefs}

WfKids ==
    {JsBool(TRUE), JsBool(FALSE), C_ref2(S_equals, S_a, JsStr(S_yes)),
     C_ref1(S_exists, S_a), C_ref1(S_truthy, S_ctxSubmitted),
     C_refN(S_notIn, S_a, <<JsNum(1)>>)}

WfCombos == {C_list(op, kids) : op \in ListOps, kids \in SeqsUpTo(WfKids, MaxArity)}

WfNots == {C_not(k) : k \in (WfLeaves \ {JsUndefined}) \cup WfCombos}

WfDeep ==
    {C_list(op, <<C_not(k1), k2>>) : op \in ListOps, k1 \in WfKids, k2 \in WfKids}
    \cup {C_not(C_not(k)) : k \in WfKids}

\* conditions that break the shape the schema declares
BadScalars == {JsNum(5), JsStr(S_yes), JsNull, JsArr(<<>>), JsArr(<<JsBool(FALSE)>>)}

BadOps ==
    {JsObj([ref |-> JsStr(S_a)]),
     JsObj([op |-> JsNum(1), ref |-> JsStr(S_a)]),
     JsObj([op |-> JsNull]),
     JsObj([op |-> JsStr(S_bogus), ref |-> JsStr(S_a), value |-> JsStr(S_yes)]),
     JsObj([op |-> JsStr(S_empty)])}

BadRefOps ==
    \* ref missing
    {JsObj([op |-> JsStr(op), value |-> JsStr(S_yes), values |-> JsArr(<<JsStr(S_yes)>>)])
        : op \in RefOps}
    \* ref of the wrong type, empty or blank
    \cup {JsObj([op |-> JsStr(op), ref |-> r, value |-> JsStr(S_yes),
                 values |-> JsArr(<<JsStr(S_yes)>>)])
            : op \in RefOps, r \in {JsNum(1), JsNull, JsStr(S_empty), JsStr(S_blank)}}
    \* value missing
    \cup {C_ref1(op, r) : op \in {S_equals, S_notEquals}, r \in SampleRefs}
    \* values missing, of the wrong type, or empty
    \cup {C_ref1(op, r) : op \in {S_in, S_notIn}, r \in SampleRefs}
    \cup {JsObj([op |-> JsStr(op), ref |-> JsStr(S_a), values |-> vs])
            : op \in {S_in, S_notIn}, vs \in {JsStr(S_yes), JsNull, JsArr(<<>>)}}

BadListOps ==
    {JsObj([op |-> JsStr(op)]) : op \in ListOps \cup {S_not}}
    \cup {JsObj([op |-> JsStr(op), conditions |-> xs])
            : op \in ListOps, xs \in {JsArr(<<>>), JsBool(TRUE), JsNull, JsStr(S_yes)}}

\* refs with a dot that do not start with "context."
DottedRefConds ==
    {JsObj([op |-> JsStr(op), ref |-> JsStr(S_dotted), value |-> v,
            values |-> JsArr(<<v>>)])
        : op \in RefOps, v \in {JsStr(S_yes), JsNull}}

BadConds == BadScalars \cup BadOps \cup BadRefOps \cup BadListOps

\* broken conditions below a combinator
BadNested ==
    {C_not(m) : m \in BadConds \cup DottedRefConds}
    \cup {C_list(op, <<m, k>>) : op \in ListOps, m \in BadOps \cup BadScalars,
                                k \in {JsBool(TRUE), JsBool(FALSE)}}

CondInputs ==
    WfLeaves \cup WfCombos \cup WfNots \cup WfDeep
    \cup BadConds \cup DottedRefConds \cup BadNested

FallbackInputs == {JsUndefined, JsStr(S_hidden), JsStr(S_disabled)}

\* values of field "a" in the form state; field "b" is never in it
AValues ==
    {JsStr(S_empty), JsStr(S_blank), JsStr(S_yes), JsStr(S_one), JsNum(1), JsNum(0),
     JsBool(TRUE), JsBool(FALSE), JsNaN}

CtxInputs ==
    {EvalContext(S_a :> v, S_submitted :> JsBool(sub)) : v \in AValues, sub \in BOOLEAN}

(***************************************************************************)
(* SpecCond: evaluateCondition and resolveVisibility applied to inputs     *)
(* drawn from the sets above                                               *)
(***************************************************************************)
ParkedCond ==
    /\ condIn = JsUndefined /\ fallbackIn = JsUndefined
    /\ ctxIn = NotRun /\ evalOut = NotRun /\ visOut = NotRun

ParkedVer == verIn = <<>> /\ verOut = NotRun

ParkedForm ==
    /\ props = NotRun /\ view = "none" /\ formData = <<>> /\ errors = <<>>
    /\ suggestions = <<>> /\ submitted = FALSE /\ submitStatus = "idle"
    /\ sendCount = 0 /\ lastSent = NotRun
    /\ inflight = <<>> /\ lastEvent = "none"

ParkedField ==
    /\ fieldIn = NotRun /\ valueIn = NotRun /\ validOut = NotRun /\ normOut = NotRun
    /\ recvIn = NotRun /\ optsIn = <<>> /\ closestOut = NotRun

ParkedFetch ==
    /\ urlIn = <<>> /\ worldIn = NotRun /\ fetchOut = NotRun

ParkedLoad ==
    /\ url = <<>> /\ loadState = NotRun /\ requestIdRef = 0 /\ pending = {}
    /\ loadEvent = "none"

CondInit ==
    /\ condIn \in CondInputs
    /\ fallbackIn \in FallbackInputs
    /\ ctxIn \in CtxInputs
    /\ evalOut = NotRun
    /\ visOut = NotRun
    /\ ParkedVer
    /\ ParkedForm
    /\ ParkedField
    /\ ParkedFetch
    /\ ParkedLoad

EvalStep ==
    /\ evalOut = NotRun
    /\ evalOut' = JsBool(evaluateCondition(condIn, ctxIn))
    /\ UNCHANGED <<condIn, fallbackIn, ctxIn, visOut, verVars, formVars, fieldVars, fetchVars, loadVars>>

ResolveStep ==
    /\ visOut = NotRun
    /\ visOut' = resolveVisibility(condIn, fallbackIn, ctxIn)
    /\ UNCHANGED <<condIn, fallbackIn, ctxIn, evalOut, verVars, formVars, fieldVars, fetchVars, loadVars>>

CondNext == EvalStep \/ ResolveStep

SpecCond == CondInit /\ [][CondNext]_vars

(***************************************************************************)
(* Shapes of conditions, read off the condition itself                     *)
(***************************************************************************)
KnownOps == RefOps \cup ListOps \cup {S_not}

IsScalarLiteral(v) == v.t \in {"string", "number", "boolean", "null"}

HasOp(c, ops) == c.t = "object" /\ Get(c, "op").t = "string" /\ Get(c, "op").s \in ops

SupportedRef(ref) == startsWith(ref, S_context_) \/ ~includes(ref, ".")

RECURSIVE WellFormed(_)
WellFormed(c) ==
    \/ c = JsUndefined
    \/ c.t = "boolean"
    \/ /\ HasOp(c, RefOps)
       /\ Get(c, "ref").t = "string"
       /\ trim(Get(c, "ref").s) # <<>>
       /\ SupportedRef(Get(c, "ref").s)
       /\ HasOp(c, {S_equals, S_notEquals}) => IsScalarLiteral(Get(c, "value"))
       /\ HasOp(c, {S_in, S_notIn}) =>
            /\ Get(c, "values").t = "array"
            /\ Len(Get(c, "values").items) > 0
            /\ \A i \in 1..Len(Get(c, "values").items) :
                  IsScalarLiteral(Get(c, "values").items[i])
    \/ /\ HasOp(c, ListOps)
       /\ Get(c, "conditions").t = "array"
       /\ Len(Get(c, "conditions").items) > 0
       /\ \A i \in 1..Len(Get(c, "conditions").items) :
             /\ Get(c, "conditions").items[i] # JsUndefined
             /\ WellFormed(Get(c, "conditions").items[i])
    \/ /\ HasOp(c, {S_not})
       /\ Get(c, "condition") # JsUndefined
       /\ WellFormed(Get(c, "condition"))

\* the malformed shapes of C3
MalformedShape(c) ==
    \/ c.t \notin {"undefined", "boolean", "object"}
    \/ /\ c.t = "object"
       /\ \/ Get(c, "op").t # "string"
          \/ Get(c, "op").s \notin KnownOps
          \/ HasOp(c, RefOps) /\ Get(c, "ref").t # "string"
          \/ HasOp(c, {S_equals, S_notEquals}) /\ Get(c, "value") = JsUndefined
          \/ HasOp(c, {S_in, S_notIn}) /\ Get(c, "values").t # "array"
          \/ HasOp(c, {S_not}) /\ Get(c, "condition") = JsUndefined

\* a ref with a dot that does not start with "context."
HasUnsupportedRef(c) ==
    /\ HasOp(c, RefOps)
    /\ Get(c, "ref").t = "string"
    /\ includes(Get(c, "ref").s, ".")
    /\ ~startsWith(Get(c, "ref").s, S_context_)

\* an "and"/"or" whose conditions is empty or not a list
HasEmptyList(c) ==
    /\ HasOp(c, ListOps)
    /\ \/ Get(c, "conditions").t # "array"
       \/ Len(Get(c, "conditions").items) = 0

\* the broken children of C5
BrokenChild(m) ==
    \/ m.t \notin {"undefined", "boolean", "object"}
    \/ /\ m.t = "object"
       /\ \/ Get(m, "op").t # "string"
          \/ Get(m, "op").s \notin KnownOps
          \/ /\ HasOp(m, RefOps)
             /\ \/ Get(m, "ref").t # "string"
                \/ trim(Get(m, "ref").s) = <<>>
          \/ HasEmptyList(m)

(***************************************************************************)
(* The semantics section 4.4 of the specification gives a well-formed      *)
(* condition                                                               *)
(***************************************************************************)
Resolved(ref, ctx) ==
    IF startsWith(ref, S_context_)
    THEN LET key == SubSeq(ref, Len(S_context_) + 1, Len(ref))
         IN  IF key \in DOMAIN ctx.context THEN ctx.context[key] ELSE JsUndefined
    ELSE IF ref \in DOMAIN ctx.values THEN ctx.values[ref] ELSE JsUndefined

Truthy(v) ==
    ~ \/ v \in {JsUndefined, JsNull, JsNaN, JsBool(FALSE), JsNum(0), JsStr(<<>>)}

OnlySpaces(s) == \A i \in 1..Len(s) : s[i] = " "

RECURSIVE Meaning(_, _)
Meaning(c, ctx) ==
    IF c = JsUndefined THEN TRUE
    ELSE IF c.t = "boolean" THEN c = JsBool(TRUE)
    ELSE LET op  == Get(c, "op").s
             r   == Resolved(Get(c, "ref").s, ctx)
             vs  == Get(c, "values").items
             ks  == Get(c, "conditions").items
         IN  CASE op = S_equals    -> r # JsNaN /\ r = Get(c, "value")
               [] op = S_notEquals -> r = JsNaN \/ r # Get(c, "value")
               [] op = S_in        -> r \in {vs[i] : i \in 1..Len(vs)}
               [] op = S_notIn     -> r \notin {vs[i] : i \in 1..Len(vs)}
               [] op = S_exists    ->
                    /\ r \notin {JsUndefined, JsNull}
                    /\ r.t = "string" => ~OnlySpaces(r.s)
               [] op = S_truthy    -> Truthy(r)
               [] op = S_falsy     -> ~Truthy(r)
               [] op = S_and       -> \A i \in 1..Len(ks) : Meaning(ks[i], ctx)
               [] op = S_or        -> \E i \in 1..Len(ks) : Meaning(ks[i], ctx)
               [] op = S_not       -> ~Meaning(Get(c, "condition"), ctx)

(***************************************************************************)
(* Claims about the condition language                                     *)
(***************************************************************************)
EvalRan == evalOut # NotRun
VisRan  == visOut # NotRun

\* C3 (as stated): every malformed condition (non-object non-boolean value,
\* missing or non-string op, unknown op, a comparison op without its ref,
\* value or values, a ref or values of the wrong type, "not" without a nested
\* condition) evaluates to true in every context.
C3_MalformedIsTrue ==
    (EvalRan /\ MalformedShape(condIn)) => evalOut = JsBool(TRUE)

\* C4 (as stated): every comparison whose ref has a dot and does not start with
\* "context." evaluates to true, whatever its value/values and the context.
C4_UnsupportedRefIsTrue ==
    (EvalRan /\ HasUnsupportedRef(condIn)) => evalOut = JsBool(TRUE)

\* C5 (as stated): an element whose condition is "not" of a broken condition is
\* rendered and enabled, for either fallback.
C5_BrokenNeverHides ==
    (VisRan /\ HasOp(condIn, {S_not}) /\ BrokenChild(Get(condIn, "condition")))
        => visOut = Visibility(TRUE, FALSE)

\* C6: on every well-formed condition evaluateCondition equals the semantics of
\* section 4.4 (absent, literals, equals/notEquals, in/notIn, exists,
\* truthy/falsy, and/or, not; context.<key> in the context map, a bare id in the
\* values map).
C6_EvalMatchesMeaning ==
    (EvalRan /\ WellFormed(condIn)) => evalOut = JsBool(Meaning(condIn, ctxIn))

C6_Witness ==
    /\ EvalRan
    /\ condIn = C_list(S_or, <<C_not(C_ref1(S_exists, S_a)),
                               C_ref1(S_truthy, S_ctxSubmitted)>>)
    /\ ctxIn = EvalContext(S_a :> JsStr(S_blank), S_submitted :> JsBool(FALSE))
    /\ evalOut = JsBool(TRUE)

\* C7: an "and" or "or" whose conditions list is empty, or not a list,
\* evaluates to true.
C7_EmptyListIsTrue ==
    (EvalRan /\ HasEmptyList(condIn)) => evalOut = JsBool(TRUE)

C7_Witness ==
    /\ EvalRan
    /\ condIn = JsObj([op |-> JsStr(S_or), conditions |-> JsArr(<<>>)])
    /\ evalOut = JsBool(TRUE)

\* C8: resolveVisibility is {true,false} when the condition holds, {true,true}
\* when it fails with fallback "disabled", {false,false} when it fails with
\* fallback "hidden" or none; never {false,true}.
C8_VisibilityTable ==
    VisRan =>
        /\ evaluateCondition(condIn, ctxIn)
              => visOut = Visibility(TRUE, FALSE)
        /\ ~evaluateCondition(condIn, ctxIn) /\ fallbackIn = JsStr(S_disabled)
              => visOut = Visibility(TRUE, TRUE)
        /\ ~evaluateCondition(condIn, ctxIn)
              /\ fallbackIn \in {JsUndefined, JsStr(S_hidden)}
              => visOut = Visibility(FALSE, FALSE)
        /\ visOut # Visibility(FALSE, TRUE)

C8_Witness ==
    /\ VisRan
    /\ condIn = C_ref2(S_equals, S_a, JsStr(S_yes))
    /\ ctxIn.values[S_a] = JsStr(S_one)
    /\ fallbackIn = JsUndefined
    /\ visOut = Visibility(FALSE, FALSE)

(***************************************************************************)
(* The schema version gate (part_001 171-221)                              *)
(***************************************************************************)
LEGACY_SCHEMA_VERSION == <<"0">>

SUPPORTED_SCHEMA_MAJOR_VERSIONS == {1}

Digits == {"0", "1", "2", "3", "4", "5", "6", "7", "8", "9"}

DigitValue(ch) ==
    CASE ch = "0" -> 0 [] ch = "1" -> 1 [] ch = "2" -> 2 [] ch = "3" -> 3
      [] ch = "4" -> 4 [] ch = "5" -> 5 [] ch = "6" -> 6 [] ch = "7" -> 7
      [] ch = "8" -> 8 [] ch = "9" -> 9

\* Number(digits) for a run of decimal digits. Every run the model tries is far
\* below the 309 digits at which Number() yields Infinity, so the
\* Number.isFinite guards of parseSchemaVersion never reject.
RECURSIVE NumberOfDigits(_, _)
NumberOfDigits(s, acc) ==
    IF s = <<>> THEN acc
    ELSE NumberOfDigits(Tail(s), acc * 10 + DigitValue(Head(s)))

\* \d+ from position i: the index of the last digit of the longest run that
\* starts at i (i - 1 when there is none)
RECURSIVE DigitRunEnd(_, _)
DigitRunEnd(s, i) ==
    IF i <= Len(s) /\ s[i] \in Digits THEN DigitRunEnd(s, i + 1) ELSE i - 1

\* a match that failed (null): no captured group
NoMatch == <<>>

\* trimmed.match(/^(\d+)(?:\.(\d+))?(?:\.(\d+))?$/): the captured groups, or
\* null. Digits and "." are disjoint, so the greedy runs never backtrack to a
\* match.
matchVersion(s) ==
    LET e1 == DigitRunEnd(s, 1)
        e2 == DigitRunEnd(s, e1 + 2)
        e3 == DigitRunEnd(s, e2 + 2)
        g1 == SubSeq(s, 1, e1)
        g2 == SubSeq(s, e1 + 2, e2)
        g3 == SubSeq(s, e2 + 2, e3)
    IN  IF e1 < 1 THEN NoMatch
        ELSE IF e1 = Len(s) THEN <<g1>>
        ELSE IF s[e1 + 1] # "." \/ e2 < e1 + 2 THEN NoMatch
        ELSE IF e2 = Len(s) THEN <<g1, g2>>
        ELSE IF s[e2 + 1] # "." \/ e3 < e2 + 2 THEN NoMatch
        ELSE IF e3 = Len(s) THEN <<g1, g2, g3>>
        ELSE NoMatch

parseSchemaVersion(raw) ==
    LET match == matchVersion(trim(raw))
    IN  IF match = NoMatch THEN JsNull
        ELSE [major |-> NumberOfDigits(match[1], 0),
              minor |-> IF Len(match) >= 2 THEN JsNum(NumberOfDigits(match[2], 0))
                        ELSE JsUndefined,
              patch |-> IF Len(match) >= 3 THEN JsNum(NumberOfDigits(match[3], 0))
                        ELSE JsUndefined]

\* a mutant of getSchemaVersionInfo: the legacy test is dropped
getSchemaVersionInfo_noLegacy(raw) ==
    LET trimmed == trim(raw)
        parsed  == parseSchemaVersion(trimmed)
    IN  IF parsed = JsNull THEN [status |-> "invalid", raw |-> trimmed]
        ELSE IF parsed.major \in SUPPORTED_SCHEMA_MAJOR_VERSIONS
             THEN [status |-> "supported", raw |-> trimmed, major |-> parsed.major]
             ELSE [status |-> "unsupported", raw |-> trimmed, major |-> parsed.major]

getSchemaVersionInfo(raw) ==
    LET trimmed == trim(raw)
        parsed  == parseSchemaVersion(trimmed)
    IN  IF parsed = JsNull THEN [status |-> "invalid", raw |-> trimmed]
        ELSE IF parsed.major = 0
             THEN [status |-> "legacy", raw |-> trimmed, major |-> 0]
        ELSE IF parsed.major \in SUPPORTED_SCHEMA_MAJOR_VERSIONS
             THEN [status |-> "supported", raw |-> trimmed, major |-> parsed.major]
             ELSE [status |-> "unsupported", raw |-> trimmed, major |-> parsed.major]

(***************************************************************************)
(* SpecVersion: getSchemaVersionInfo applied to every short string         *)
(***************************************************************************)
\* longest version string tried
MaxVerLen == 5

VerAlphabet == {"0", "1", "7", ".", "a", " "}

S_abc == <<"a", "b", "c">>

VerInputs ==
    {<<>>, S_abc} \cup UNION {[1..k -> VerAlphabet] : k \in 1..MaxVerLen}

VerInit ==
    /\ verIn \in VerInputs
    /\ verOut = NotRun
    /\ ParkedCond
    /\ ParkedForm
    /\ ParkedField
    /\ ParkedFetch
    /\ ParkedLoad

VersionStep ==
    /\ verOut = NotRun
    /\ verOut' = getSchemaVersionInfo(verIn)
    /\ UNCHANGED <<verIn, condVars, formVars, fieldVars, fetchVars, loadVars>>

VerNext == VersionStep

SpecVersion == VerInit /\ [][VerNext]_vars

\* the pattern ^\d+(\.\d+)?(\.\d+)?$, read as: one, two or three non-empty runs
\* of digits separated by single dots
AllDigits(s) == s # <<>> /\ \A i \in 1..Len(s) : s[i] \in Digits

MatchesVersionPattern(s) ==
    \/ AllDigits(s)
    \/ \E i \in 1..Len(s) :
          /\ s[i] = "."
          /\ AllDigits(SubSeq(s, 1, i - 1))
          /\ \/ AllDigits(SubSeq(s, i + 1, Len(s)))
             \/ \E j \in (i + 1)..Len(s) :
                   /\ s[j] = "."
                   /\ AllDigits(SubSeq(s, i + 1, j - 1))
                   /\ AllDigits(SubSeq(s, j + 1, Len(s)))

\* the value of the leading run of digits
RECURSIVE Pow10(_)
Pow10(k) == IF k = 0 THEN 1 ELSE 10 * Pow10(k - 1)

RECURSIVE DecimalValue(_)
DecimalValue(s) ==
    IF s = <<>> THEN 0
    ELSE DigitValue(Head(s)) * Pow10(Len(s) - 1) + DecimalValue(Tail(s))

MajorOf(s) ==
    LET dots == {i \in 1..Len(s) : s[i] = "."}
        stop == IF dots = {} THEN Len(s)
                ELSE (CHOOSE i \in dots : \A j \in dots : i <= j) - 1
    IN  DecimalValue(SubSeq(s, 1, stop))

VersionStatusFor(s) ==
    IF ~MatchesVersionPattern(s) THEN "invalid"
    ELSE IF MajorOf(s) = 0 THEN "legacy"
    ELSE IF MajorOf(s) \in {1} THEN "supported"
    ELSE "unsupported"

VerRan == verOut # NotRun

\* C9 (as stated): the status is "invalid" exactly when the string fails the
\* pattern, else "legacy" for major 0, "supported" for major 1, "unsupported"
\* for any other major.
C9_StatusByPattern ==
    VerRan => verOut.status = VersionStatusFor(verIn)

\* C9 (amended): the same classification of the string with its surrounding
\* white space removed; "1" is supported, "0" legacy, "7" unsupported and
\* "abc" invalid.
C9_StatusByTrimmedPattern ==
    VerRan =>
        /\ verOut.status = VersionStatusFor(trim(verIn))
        /\ verIn = <<"1">> => verOut.status = "supported"
        /\ verIn = <<"0">> => verOut.status = "legacy"
        /\ verIn = <<"7">> => verOut.status = "unsupported"
        /\ verIn = S_abc => verOut.status = "invalid"

C9_Witness ==
    /\ VerRan
    /\ verIn = <<"0", ".", "1", ".", "7">>
    /\ verOut.status = "legacy"

(***************************************************************************)
(* Field values: defaults, emptiness, validation, normalisation            *)
(* (schema-form.tsx 120-304)                                               *)
(***************************************************************************)
FieldTypes == {"text", "email", "number", "select", "checkbox", "textarea"}

\* a field of uiSchema.fields; an absent optional key is JsUndefined
FieldBase ==
    [id |-> <<>>, label |-> <<>>, type |-> "text", required |-> JsUndefined,
     options |-> JsUndefined, min |-> JsUndefined, max |-> JsUndefined,
     minLength |-> JsUndefined, maxLength |-> JsUndefined, pattern |-> JsUndefined,
     default |-> JsUndefined, condition |-> JsUndefined, fallback |-> JsUndefined]

\* the last index of a non-empty set of indices: a later write to the same key
\* of a Record replaces an earlier one
LastOf(S) == CHOOSE i \in S : \A j \in S : j <= i

FieldIds(fields) == {fields[i].id : i \in 1..Len(fields)}

\* a mutant of defaultOf: the default of the field is ignored
defaultOf_noDefault(field) ==
    IF field.type = "checkbox" THEN JsBool(FALSE) ELSE JsStr(<<>>)

defaultOf(field) ==
    IF field.default # JsUndefined THEN field.default
    ELSE IF field.type = "checkbox" THEN JsBool(FALSE)
    ELSE JsStr(<<>>)

buildDefaults(fields) ==
    [id \in FieldIds(fields) |->
        defaultOf(fields[LastOf({i \in 1..Len(fields) : fields[i].id = id})])]

\* a mutant of isEmpty: a string is empty only when it has no character
isEmpty_noTrim(value) ==
    IF value.t \in {"undefined", "null"} THEN TRUE
    ELSE IF value.t = "boolean" THEN ~value.b
    ELSE IF value.t \in {"number", "nan", "infinity"} THEN value.t = "nan"
    ELSE value.s = <<>>

isEmpty(value) ==
    IF value.t \in {"undefined", "null"} THEN TRUE
    ELSE IF value.t = "boolean" THEN ~value.b
    ELSE IF value.t \in {"number", "nan", "infinity"} THEN value.t = "nan"
    ELSE trim(value.s) = <<>>

DigitChar(d) ==
    CASE d = 0 -> "0" [] d = 1 -> "1" [] d = 2 -> "2" [] d = 3 -> "3" [] d = 4 -> "4"
      [] d = 5 -> "5" [] d = 6 -> "6" [] d = 7 -> "7" [] d = 8 -> "8" [] d = 9 -> "9"

RECURSIVE NatToString(_)
NatToString(n) ==
    IF n < 10 THEN <<DigitChar(n)>>
    ELSE NatToString(n \div 10) \o <<DigitChar(n % 10)>>

S_Infinity == <<"I", "n", "f", "i", "n", "i", "t", "y">>

\* String(value) for the scalar values of the form state (integers only)
jsString(v) ==
    CASE v.t = "string"    -> v.s
      [] v.t = "number"    -> IF v.n < 0 THEN <<"-">> \o NatToString(-v.n)
                              ELSE NatToString(v.n)
      [] v.t = "nan"       -> <<"N", "a", "N">>
      [] v.t = "infinity"  -> IF v.neg THEN <<"-">> \o S_Infinity ELSE S_Infinity
      [] v.t = "boolean"   -> IF v.b THEN <<"t", "r", "u", "e">>
                              ELSE <<"f", "a", "l", "s", "e">>
      [] v.t = "null"      -> <<"n", "u", "l", "l">>
      [] v.t = "undefined" -> <<"u", "n", "d", "e", "f", "i", "n", "e", "d">>

\* Number(text) for the integer literals of the model: white space is trimmed,
\* the empty string is 0, an optionally signed run of digits is its value, an
\* optionally signed "Infinity" is that infinity, any other text is NaN
StringToNumber(s) ==
    LET t    == trim(s)
        body == IF t # <<>> /\ Head(t) \in {"-", "+"} THEN Tail(t) ELSE t
    IN  IF t = <<>> THEN JsNum(0)
        ELSE IF body # <<>> /\ \A i \in 1..Len(body) : body[i] \in Digits
             THEN JsNum(IF Head(t) = "-" THEN -NumberOfDigits(body, 0)
                        ELSE NumberOfDigits(body, 0))
             ELSE IF body = S_Infinity THEN JsInf(Head(t) = "-")
             ELSE JsNaN

\* a < b for two numbers that are not NaN
NumLess(a, b) ==
    IF a.t = "infinity" THEN a.neg /\ b # a
    ELSE IF b.t = "infinity" THEN ~b.neg
    ELSE a.n < b.n

\* a mutant of normalizeSubmissionValue: the text of a number field is converted
\* without the NaN test
normalizeSubmissionValue_keepNaN(field, value) ==
    IF field.type = "checkbox" THEN JsBool(ToBoolean(value))
    ELSE IF field.type = "number"
    THEN IF value \in {JsStr(<<>>), JsUndefined, JsNull} THEN JsUndefined
         ELSE IF value.t \in {"number", "infinity"} THEN value
         ELSE IF value.t = "string" THEN StringToNumber(value.s)
         ELSE JsUndefined
    ELSE LET asString == IF value.t = "string" THEN value.s
                         ELSE IF value.t \in {"undefined", "null"} THEN <<>>
                         ELSE jsString(value)
             trimmed  == trim(asString)
         IN  IF trimmed = <<>> THEN JsUndefined ELSE JsStr(trimmed)

normalizeSubmissionValue(field, value) ==
    IF field.type = "checkbox" THEN JsBool(ToBoolean(value))
    ELSE IF field.type = "number"
    THEN IF value \in {JsStr(<<>>), JsUndefined, JsNull} THEN JsUndefined
         ELSE IF value.t \in {"number", "infinity"} THEN value
         ELSE IF value.t = "string"
              THEN (IF StringToNumber(value.s) = JsNaN THEN JsUndefined
                    ELSE StringToNumber(value.s))
              ELSE JsUndefined
    ELSE LET asString == IF value.t = "string" THEN value.s
                         ELSE IF value.t \in {"undefined", "null"} THEN <<>>
                         ELSE jsString(value)
             trimmed  == trim(asString)
         IN  IF trimmed = <<>> THEN JsUndefined ELSE JsStr(trimmed)

\* a validation message: the label, the fixed text that follows it and, for a
\* violated bound, the bound
Message(label, text) == [label |-> label, text |-> text]
MessageN(label, text, n) == [label |-> label, text |-> text, bound |-> n]

\* FieldValidation; no suggestions is the empty list
Validation(message, hints) == [message |-> message, suggestions |-> hints]

S_example_email ==
    <<"n", "a", "m", "e", "@", "e", "x", "a", "m", "p", "l", "e", ".", "c", "o", "m">>

\* /^[^\s@]+@[^\s@]+\.[^\s@]+$/.test(email)
emailPatternTest(email) ==
    \E at \in 1..Len(email) :
        /\ email[at] = "@"
        /\ at > 1
        /\ \A i \in 1..Len(email) : ~IsSpace(email[i]) /\ (email[i] = "@" => i = at)
        /\ \E dot \in (at + 2)..(Len(email) - 1) : email[dot] = "."

\* value ?? ""
OrEmpty(value) == IF value.t \in {"undefined", "null"} THEN JsStr(<<>>) ELSE value

optionList(field) ==
    IF field.options.t = "array" THEN field.options.items ELSE <<>>

\* new RegExp(pattern) and regex.test(text) (293-294) for the patterns of the
\* model: "^yes$", and "(" which is no regular expression
S_patYes == <<"^", "y", "e", "s", "$">>
S_patBad == <<"(">>
RegExpThrows(pattern) == pattern = S_patBad
RegExpTest(pattern, text) == IF pattern = S_patYes THEN text = S_yes ELSE TRUE

validateFieldValue(field, value) ==
    LET required == ToBoolean(field.required)
        numeric  == IF value.t \in {"number", "nan", "infinity"} THEN value
                    ELSE StringToNumber(jsString(value))
        email    == trim(jsString(OrEmpty(value)))
        text     == jsString(OrEmpty(value))
    IN  IF required /\ isEmpty(value)
        THEN IF field.type = "select" /\ Len(optionList(field)) > 0
             THEN Validation(Message(field.label, "is required"), optionList(field))
             ELSE Validation(Message(field.label, "is required"), <<>>)
        ELSE IF ~required /\ isEmpty(value) THEN JsNull
        ELSE IF field.type = "email" /\ ~emailPatternTest(email)
        THEN Validation(Message(field.label, "must be a valid email address"),
                        <<JsStr(S_example_email)>>)
        ELSE IF field.type = "number" /\ numeric = JsNaN
        THEN Validation(Message(field.label, "must be a valid number"),
                        (IF field.min # JsUndefined THEN <<field.min>> ELSE <<>>)
                        \o (IF field.max # JsUndefined /\ field.max # field.min
                            THEN <<field.max>> ELSE <<>>))
        ELSE IF field.type = "number" /\ field.min # JsUndefined
                /\ NumLess(numeric, field.min)
        THEN Validation(MessageN(field.label, "must be at least", field.min.n),
                        <<field.min>>)
        ELSE IF field.type = "number" /\ field.max # JsUndefined
                /\ NumLess(field.max, numeric)
        THEN Validation(MessageN(field.label, "must be at most", field.max.n),
                        <<field.max>>)
        ELSE IF field.type = "select" /\ Len(optionList(field)) = 0
        THEN Validation(Message(field.label,
                                "is misconfigured: missing options[] for a select field"),
                        <<>>)
        ELSE IF field.type = "select"
                /\ ~ArrIncludes(optionList(field), JsStr(text))
        THEN Validation(Message(field.label, "must be one of the available options"),
                        optionList(field))
        ELSE IF field.type \in {"text", "textarea", "email"}
                /\ field.minLength # JsUndefined /\ Len(text) < field.minLength.n
        THEN Validation(MessageN(field.label, "must be at least (characters)",
                                 field.minLength.n), <<>>)
        ELSE IF field.type \in {"text", "textarea", "email"}
                /\ field.maxLength # JsUndefined /\ Len(text) > field.maxLength.n
        THEN Validation(MessageN(field.label, "must be at most (characters)",
                                 field.maxLength.n), <<>>)
        ELSE IF field.type \in {"text", "textarea", "email"}
                /\ ToBoolean(field.pattern)
                /\ ~RegExpThrows(field.pattern.s)
                /\ ~RegExpTest(field.pattern.s, text)
        THEN Validation(Message(field.label, "does not match the expected format"), <<>>)
        ELSE JsNull

(***************************************************************************)
(* The suggestion engine (schema-form.tsx 154-193)                         *)
(***************************************************************************)
\* String.prototype.toLowerCase on the letters the model uses
LowerChar(ch) ==
    CASE ch = "A" -> "a" [] ch = "B" -> "b" [] ch = "D" -> "d" [] ch = "U" -> "u"
      [] ch = "J" -> "j" [] ch = "S" -> "s" [] ch = "O" -> "o" [] ch = "N" -> "n"
      [] OTHER -> ch

toLowerCase(s) == [i \in 1..Len(s) |-> LowerChar(s[i])]

Min3(x, y, z) ==
    IF x <= y /\ x <= z THEN x ELSE IF y <= z THEN y ELSE z

\* row i of the matrix (161-170), filled from column 1 on: cells holds
\* matrix[i][0..j-1], prev is row i - 1
RECURSIVE levRow(_, _, _, _, _)
levRow(a, b, prev, i, cells) ==
    LET j == Len(cells)
    IN  IF j > Len(b) THEN cells
        ELSE LET cost == IF a[i] = b[j] THEN 0 ELSE 1
             IN  levRow(a, b, prev, i,
                        Append(cells, Min3(prev[j + 1] + 1, cells[j] + 1, prev[j] + cost)))

\* rows i..a.length, each starting with matrix[i][0] = i (158)
RECURSIVE levRows(_, _, _, _)
levRows(a, b, prev, i) ==
    IF i > Len(a) THEN prev
    ELSE levRows(a, b, levRow(a, b, prev, i, <<i>>), i + 1)

\* levenshtein(a, b): row 0 is matrix[0][j] = j (159); the result is the last
\* cell of the last row
levenshtein(a, b) ==
    levRows(a, b, [j \in 1..(Len(b) + 1) |-> j - 1], 1)[Len(b) + 1]

\* Array.prototype.sort((a, b) => a.score - b.score), which is stable: insert x
\* after every element whose score is not greater
RECURSIVE insertByScore(_, _)
insertByScore(sorted, x) ==
    IF sorted = <<>> THEN <<x>>
    ELSE IF Head(sorted).score <= x.score
         THEN <<Head(sorted)>> \o insertByScore(Tail(sorted), x)
         ELSE <<x>> \o sorted

RECURSIVE sortByScore(_)
sortByScore(xs) ==
    IF xs = <<>> THEN <<>>
    ELSE insertByScore(sortByScore(SubSeq(xs, 1, Len(xs) - 1)), xs[Len(xs)])

MaxOf(x, y) == IF x >= y THEN x ELSE y

\* a mutant of closestOption: the best option is returned however far it is
closestOption_noThreshold(value, options) ==
    IF value.t # "string" \/ Len(options) = 0 THEN JsNull
    ELSE LET normalized == toLowerCase(trim(value.s))
             ranked == sortByScore([i \in 1..Len(options) |->
                          [option |-> options[i],
                           score  |-> levenshtein(normalized, toLowerCase(options[i]))]])
         IN  IF normalized = <<>> THEN JsNull ELSE JsStr(ranked[1].option)

closestOption(value, options) ==
    IF value.t # "string" \/ Len(options) = 0 THEN JsNull
    ELSE LET normalized == toLowerCase(trim(value.s))
             ranked == sortByScore([i \in 1..Len(options) |->
                          [option |-> options[i],
                           score  |-> levenshtein(normalized, toLowerCase(options[i]))]])
         IN  IF normalized = <<>> THEN JsNull
             ELSE IF ranked[1].score > MaxOf(3, Len(normalized) \div 2) THEN JsNull
             ELSE JsStr(ranked[1].option)

(***************************************************************************)
(* schemaFormSchema (schema-form.tsx 36-106) as safeParse applies it       *)
(***************************************************************************)
conditionValueSchema(v) == v.t \in {"string", "number", "boolean", "null"}

conditionRefSchema(ref) ==
    /\ ref.t = "string"
    /\ startsWith(ref.s, S_context_) \/ ~includes(ref.s, ".")

RECURSIVE conditionSchema(_)
conditionSchema(c) ==
    \/ c.t = "boolean"
    \/ /\ c.t = "object"
       /\ Get(c, "op").t = "string"
       /\ LET op == Get(c, "op").s
          IN  \/ /\ op \in {S_equals, S_notEquals}
                 /\ conditionRefSchema(Get(c, "ref"))
                 /\ conditionValueSchema(Get(c, "value"))
              \/ /\ op \in {S_in, S_notIn}
                 /\ conditionRefSchema(Get(c, "ref"))
                 /\ Get(c, "values").t = "array"
                 /\ Len(Get(c, "values").items) >= 1
                 /\ \A i \in 1..Len(Get(c, "values").items) :
                       conditionValueSchema(Get(c, "values").items[i])
              \/ /\ op \in {S_exists, S_truthy, S_falsy}
                 /\ conditionRefSchema(Get(c, "ref"))
              \/ /\ op \in {S_and, S_or}
                 /\ Get(c, "conditions").t = "array"
                 /\ Len(Get(c, "conditions").items) >= 1
                 /\ \A i \in 1..Len(Get(c, "conditions").items) :
                       conditionSchema(Get(c, "conditions").items[i])
              \/ /\ op = S_not
                 /\ conditionSchema(Get(c, "condition"))

fallbackBehaviorEnum(v) == v \in {JsStr(S_hidden), JsStr(S_disabled)}

optionalOf(v, ok) == v = JsUndefined \/ ok

fieldSchema(f) ==
    /\ f.type \in FieldTypes
    /\ optionalOf(f.required, f.required.t = "boolean")
    /\ optionalOf(f.options,
                  /\ f.options.t = "array"
                  /\ \A i \in 1..Len(optionList(f)) : optionList(f)[i].t = "string")
    /\ optionalOf(f.min, f.min.t = "number")
    /\ optionalOf(f.max, f.max.t = "number")
    /\ optionalOf(f.minLength, f.minLength.t = "number" /\ f.minLength.n > 0)
    /\ optionalOf(f.maxLength, f.maxLength.t = "number" /\ f.maxLength.n > 0)
    /\ optionalOf(f.pattern, f.pattern.t = "string")
    /\ optionalOf(f.default, f.default.t \in {"string", "number", "boolean"})
    /\ optionalOf(f.condition, conditionSchema(f.condition))
    /\ optionalOf(f.fallback, fallbackBehaviorEnum(f.fallback))

ActionTypes == {"button", "submit", "reset"}

actionSchema(a) ==
    /\ a.type \in ActionTypes
    /\ optionalOf(a.condition, conditionSchema(a.condition))
    /\ optionalOf(a.fallback, fallbackBehaviorEnum(a.fallback))

\* parsed.success; uiSchema.fields is required (z.array(...).min(1) without
\* .optional()), and the object schema names no layout key
schemaFormSchema(p) ==
    /\ optionalOf(p.submitToAssistant, p.submitToAssistant.t = "boolean")
    /\ optionalOf(p.submitMessage, p.submitMessage.t = "string")
    /\ "t" \notin DOMAIN p.uiSchema      \* z.object: a scalar or null is refused
    /\ p.uiSchema.fields.t = "array"
    /\ Len(p.uiSchema.fields.items) >= 1
    /\ \A i \in 1..Len(p.uiSchema.fields.items) : fieldSchema(p.uiSchema.fields.items[i])
    /\ \A i \in 1..Len(p.uiSchema.actions) : actionSchema(p.uiSchema.actions[i])

\* parsed.data: the keys the schema names, submitToAssistant defaulted to true;
\* any other key of the props or of uiSchema (a version, a layout) is stripped
parsedData(p) ==
    [submitToAssistant |-> IF p.submitToAssistant = JsUndefined THEN TRUE
                           ELSE p.submitToAssistant.b,
     submitMessage     |-> p.submitMessage,
     uiSchema          |-> [title   |-> p.uiSchema.title,
                            fields  |-> p.uiSchema.fields.items,
                            actions |-> p.uiSchema.actions]]

(***************************************************************************)
(* The mounted SchemaForm (schema-form.tsx 488-881)                        *)
(***************************************************************************)
Data   == parsedData(props)
Fields == Data.uiSchema.fields

\* useMemo(() => ({ values: formData, context: { submitted } }))
evalContextOf(values, sub) == EvalContext(values, S_submitted :> JsBool(sub))

evalContext == evalContextOf(formData, submitted)

visibilityOf(element, ctx) == resolveVisibility(element.condition, element.fallback, ctx)

\* a mutant of isSkipped: only hidden fields are skipped, disabled ones are not
isSkipped_hiddenOnly(visibility) == ~visibility.shouldRender

\* a mutant of isSkipped: no field is skipped
isSkipped_never(visibility) == FALSE

\* if (!visibility.shouldRender || visibility.disabled) return;  (584, 620)
isSkipped(visibility) == ~visibility.shouldRender \/ visibility.disabled

\* the fields validate() reports, by index
failing(ctx) ==
    {i \in 1..Len(Fields) :
        /\ ~isSkipped(visibilityOf(Fields[i], ctx))
        /\ validateFieldValue(Fields[i], Lookup(ctx.values, Fields[i].id)) # JsNull}

validationAt(i, ctx) == validateFieldValue(Fields[i], Lookup(ctx.values, Fields[i].id))

nextErrors(ctx) ==
    [id \in {Fields[i].id : i \in failing(ctx)} |->
        validationAt(LastOf({i \in failing(ctx) : Fields[i].id = id}), ctx).message]

withHints(ctx) == {i \in failing(ctx) : Len(validationAt(i, ctx).suggestions) > 0}

nextSuggestions(ctx) ==
    [id \in {Fields[i].id : i \in withHints(ctx)} |->
        validationAt(LastOf({i \in withHints(ctx) : Fields[i].id = id}), ctx).suggestions]

\* the fields whose value goes into the payload, by index
submittedFields(ctx) ==
    {i \in 1..Len(Fields) :
        /\ ~isSkipped(visibilityOf(Fields[i], ctx))
        /\ normalizeSubmissionValue(Fields[i], Lookup(ctx.values, Fields[i].id))
              # JsUndefined}

payloadOf(ctx) ==
    [id \in {Fields[i].id : i \in submittedFields(ctx)} |->
        LET i == LastOf({j \in submittedFields(ctx) : Fields[j].id = id})
        IN  normalizeSubmissionValue(Fields[i], Lookup(ctx.values, Fields[i].id))]

\* the keys of the payload in insertion order: the ids of the submitted fields,
\* each at its first occurrence
RECURSIVE payloadKeysFrom(_, _, _)
payloadKeysFrom(ctx, i, keys) ==
    IF i > Len(Fields) THEN keys
    ELSE IF i \in submittedFields(ctx) /\ \A k \in 1..Len(keys) : keys[k] # Fields[i].id
         THEN payloadKeysFrom(ctx, i + 1, Append(keys, Fields[i].id))
         ELSE payloadKeysFrom(ctx, i + 1, keys)

payloadKeys(ctx) == payloadKeysFrom(ctx, 1, <<>>)

\* the characters JSON.stringify escapes, of those the model uses
RECURSIVE jsonEscape(_)
jsonEscape(s) ==
    IF s = <<>> THEN <<>>
    ELSE (IF Head(s) \in {"\"", "\\"} THEN <<"\\", Head(s)>> ELSE <<Head(s)>>)
         \o jsonEscape(Tail(s))

\* JSON.stringify of a payload value: a quoted string, a number (an infinity is
\* written null), true or false
jsonValue(v) ==
    IF v.t = "string" THEN <<"\"">> \o jsonEscape(v.s) \o <<"\"">>
    ELSE IF v.t = "infinity" THEN <<"n", "u", "l", "l">>
    ELSE jsString(v)

\* the lines of the members from key i on, joined by ",\n"
RECURSIVE jsonMembers(_, _, _)
jsonMembers(keys, payload, i) ==
    IF i > Len(keys) THEN <<>>
    ELSE <<" ", " ", "\"">> \o jsonEscape(keys[i]) \o <<"\"", ":", " ">>
         \o jsonValue(payload[keys[i]])
         \o (IF i < Len(keys) THEN <<",", "\n">> ELSE <<>>)
         \o jsonMembers(keys, payload, i + 1)

\* JSON.stringify(payload, null, 2)
jsonStringify(keys, payload) ==
    IF keys = <<>> THEN <<"{", "}">>
    ELSE <<"{", "\n">> \o jsonMembers(keys, payload, 1) \o <<"\n", "}">>

S_placeholder == <<"{", "{", "j", "s", "o", "n", "}", "}">>

\* String.prototype.indexOf: the first position (from 1) at which pat occurs in
\* s, 0 when it does not occur
RECURSIVE indexFrom(_, _, _)
indexFrom(s, pat, i) ==
    IF i + Len(pat) - 1 > Len(s) THEN 0
    ELSE IF SubSeq(s, i, i + Len(pat) - 1) = pat THEN i
    ELSE indexFrom(s, pat, i + 1)

indexOf(s, pat) == indexFrom(s, pat, 1)

\* String.prototype.includes for a text needle
includesText(s, pat) == indexOf(s, pat) > 0

\* the grave accent (U+0060), written by name
Grave == "grave"

\* the replacement text of String.prototype.replace, in which $$ stands for $,
\* $& for the matched text, $ and a grave accent for the text before it, $ and
\* an apostrophe for the text after it
RECURSIVE expandReplacement(_, _, _, _)
expandReplacement(repl, matched, before, after) ==
    IF repl = <<>> THEN <<>>
    ELSE IF Len(repl) >= 2 /\ repl[1] = "$" /\ repl[2] \in {"$", "&", Grave, "'"}
         THEN (CASE repl[2] = "$" -> <<"$">>
                 [] repl[2] = "&" -> matched
                 [] repl[2] = Grave -> before
                 [] repl[2] = "'" -> after)
              \o expandReplacement(SubSeq(repl, 3, Len(repl)), matched, before, after)
         ELSE <<Head(repl)>> \o expandReplacement(Tail(repl), matched, before, after)

\* s.replace(pat, repl) for a text pattern: the first occurrence only
replace(s, pat, repl) ==
    LET at     == indexOf(s, pat)
        before == SubSeq(s, 1, at - 1)
        after  == SubSeq(s, at + Len(pat), Len(s))
    IN  IF at = 0 THEN s
        ELSE before \o expandReplacement(repl, pat, before, after) \o after

\* defaultMessage (628)
defaultMessage(title, payloadJson) ==
    <<"F", "o", "r", "m", " ", "s", "u", "b", "m", "i", "s", "s", "i", "o", "n", " ", "(">> \o title
    \o <<")", ":", "\n", "\n", Grave, Grave, Grave, "j", "s", "o", "n", "\n">> \o payloadJson
    \o <<"\n", Grave, Grave, Grave>>

\* message (629-631)
messageOf(submitMessage, title, payloadJson) ==
    IF submitMessage.t = "string" /\ includesText(submitMessage.s, S_placeholder)
    THEN replace(submitMessage.s, S_placeholder, payloadJson)
    ELSE IF submitMessage.t = "string" THEN submitMessage.s
    ELSE defaultMessage(title, payloadJson)

\* what handleSubmit hands to sendThreadMessage, with the payload it was built
\* from
sentOf(ctx) ==
    LET payloadJson == jsonStringify(payloadKeys(ctx), payloadOf(ctx))
    IN  [payload |-> payloadOf(ctx),
         json    |-> payloadJson,
         message |-> messageOf(Data.submitMessage, Data.uiSchema.title, payloadJson)]

\* a mutant of Without: the whole map is cleared
Without_all(map, id) == <<>>

\* delete next[id]
Without(map, id) == [k \in DOMAIN map \ {id} |-> map[k]]

DefaultActions ==
    <<[type |-> "submit", condition |-> JsUndefined, fallback |-> JsUndefined],
      [type |-> "reset", condition |-> JsUndefined, fallback |-> JsUndefined]>>

actions ==
    IF Len(Data.uiSchema.actions) > 0 THEN Data.uiSchema.actions ELSE DefaultActions

\* a button of this type is rendered and enabled
CanPress(type) ==
    \E i \in 1..Len(actions) :
        /\ actions[i].type = type
        /\ visibilityOf(actions[i], evalContext) = Visibility(TRUE, FALSE)

\* the input of this field is rendered and enabled
CanEdit(i) == visibilityOf(Fields[i], evalContext) = Visibility(TRUE, FALSE)

(***************************************************************************)
(* The props the model mounts SchemaForm with                              *)
(***************************************************************************)
S_A == <<"A">>
S_B == <<"B">>
S_Age == <<"A", "g", "e">>
S_age == <<"a", "g", "e">>
S_T == <<"T">>
S_t == <<"t">>
S_d == <<"d">>
S_D == <<"D">>

Props(version, toAssistant, fields, acts) ==
    [version |-> version, submitToAssistant |-> toAssistant,
     submitMessage |-> JsUndefined,
     uiSchema |-> [title |-> S_T, fields |-> JsArr(fields), layout |-> JsUndefined,
                   actions |-> acts]]

AIsYes == C_ref2(S_equals, S_a, JsStr(S_yes))

\* a free text field; a required text field shown only when a = "yes"; a required
\* number field in 18..99 that is disabled unless a = "yes"
F_a == [FieldBase EXCEPT !.id = S_a, !.label = S_A, !.type = "text"]
F_b == [FieldBase EXCEPT !.id = S_b, !.label = S_B, !.type = "text",
                         !.required = JsBool(TRUE), !.condition = AIsYes,
                         !.fallback = JsStr(S_hidden)]
F_age == [FieldBase EXCEPT !.id = S_age, !.label = S_Age, !.type = "number",
                           !.required = JsBool(TRUE), !.min = JsNum(18),
                           !.max = JsNum(99), !.condition = AIsYes,
                           !.fallback = JsStr(S_disabled)]

\* a required checkbox; a required text field that is disabled once submitted
F_t == [FieldBase EXCEPT !.id = S_t, !.label = S_T, !.type = "checkbox",
                         !.required = JsBool(TRUE)]
F_d == [FieldBase EXCEPT !.id = S_d, !.label = S_D, !.type = "text",
                         !.required = JsBool(TRUE),
                         !.condition = C_ref1(S_falsy, S_ctxSubmitted),
                         !.fallback = JsStr(S_disabled)]

\* a reset button shown only after a submission, beside the submit button
ActionsLateReset ==
    <<[type |-> "submit", condition |-> JsUndefined, fallback |-> JsUndefined],
      [type |-> "reset", condition |-> C_ref1(S_truthy, S_ctxSubmitted),
       fallback |-> JsUndefined]>>

P_main    == Props(JsUndefined, JsUndefined, <<F_a, F_b, F_age>>, <<>>)
P_local   == Props(JsStr(<<"1">>), JsBool(FALSE), <<F_t, F_d>>, ActionsLateReset)
P_noField == Props(JsStr(<<"1">>), JsUndefined, <<>>, <<>>)
P_badType == Props(JsUndefined, JsUndefined, <<[F_a EXCEPT !.type = "tel"]>>, <<>>)

\* a layout tree: one vertical stack that holds the field t
L_stack ==
    JsArr(<<JsObj(("type" :> JsStr(<<"s", "t", "a", "c", "k">>))
                  @@ ("children" :> JsArr(<<JsObj("fieldId" :> JsStr(S_t))>>)))>>)

\* the same form given by its layout only, and by fields and layout together
P_layoutOnly ==
    [P_local EXCEPT !.uiSchema.fields = JsUndefined, !.uiSchema.layout = L_stack]
P_both == [P_local EXCEPT !.uiSchema.layout = L_stack]

\* two fields with the same id: a text field and a required checkbox
P_dup == Props(JsUndefined, JsBool(FALSE), <<F_a, [F_t EXCEPT !.id = S_a]>>, <<>>)

\* forms with a submitMessage: a template with one placeholder, one with two,
\* a text without placeholder; and a form whose field holds "$&" by default
S_dollarAmp == <<"$", "&">>

F_note == [F_a EXCEPT !.default = JsStr(S_yes)]

Template(text, field) ==
    [Props(JsUndefined, JsUndefined, <<field>>, <<>>) EXCEPT !.submitMessage = JsStr(text)]

P_tmpl      == Template(<<"x", ":">> \o S_placeholder, F_note)
P_tmplTwice == Template(S_placeholder \o <<"+">> \o S_placeholder, F_note)
P_plainText == Template(<<"h", "i">>, F_note)
P_dollar    == Template(<<"x", ":">> \o S_placeholder, [F_a EXCEPT !.default = JsStr(S_dollarAmp)])

\* the form of P_plainText after a required checkbox was added to its fields
P_grown == [P_plainText EXCEPT !.uiSchema.fields = JsArr(<<F_note, F_t>>)]

\* the props a parent passes to a mounted form in place of the ones it has
PropsChanges == {<<P_plainText, P_grown>>, <<P_grown, P_plainText>>}

VersionSample ==
    {JsStr(<<"7">>), JsStr(S_abc), JsStr(<<"0">>), JsStr(<<"1", ".", "0">>)}

\* a form of one required select
F_pick == [FieldBase EXCEPT !.id = S_b, !.label = S_B, !.type = "select",
                            !.required = JsBool(TRUE),
                            !.options = JsArr(<<JsStr(S_yes), JsStr(S_no)>>)]
P_pick == Props(JsUndefined, JsUndefined, <<F_pick>>, <<>>)

PropsInputs ==
    {P_main, P_local, P_noField, P_badType, P_layoutOnly, P_both, P_dup,
     P_tmpl, P_tmplTwice, P_plainText, P_dollar, P_pick}
    \cup {Props(v, JsUndefined, <<F_t>>, <<>>) : v \in VersionSample}

\* what the user can put into the input of a field (onChange, 681-763)
TextInputs   == {JsStr(S_empty), JsStr(S_blank), JsStr(S_yes)}
NumberInputs == {JsStr(S_empty), JsNum(5), JsNum(50), JsNum(150)}

InputsFor(field) ==
    CASE field.type = "checkbox" -> {JsBool(TRUE), JsBool(FALSE)}
      [] field.type = "number"   -> NumberInputs
      [] field.type = "select"   ->
            {JsStr(S_empty)} \cup {optionList(field)[k] : k \in 1..Len(optionList(field))}
      [] OTHER                   -> TextInputs

\* most calls of sendThreadMessage in one run
MaxSends == 2

(***************************************************************************)
(* What RuntimeSchemaForm hands to SchemaForm (part_001 36-55, 168)        *)
(***************************************************************************)
\* the values of the schemaUrl prop the model passes
S_urlA == <<"/", "a">>
S_urlB == <<"/", "b">>

\* LoadState
Idle             == [status |-> "idle"]
Loading(u)       == [status |-> "loading", url |-> u]
Success(u, data) == [status |-> "success", url |-> u, data |-> data]
Failed(u, kind)  == [status |-> "error", url |-> u, kind |-> kind]

\* a mutant of preprocessPayload: the wrapped value is lost
preprocessPayload_dropsValue(value) ==
    IF "t" \notin DOMAIN value /\ "uiSchema" \in DOMAIN value THEN value
    ELSE [version           |-> JsUndefined,
          submitToAssistant |-> JsUndefined,
          submitMessage     |-> JsUndefined,
          uiSchema          |-> JsNull]

\* the preprocess step of schemaFormRuntimePayloadSchema (part_001 49-55): an
\* object with a uiSchema key is passed on as it is, any other value becomes
\* the uiSchema of a new object with no other key
preprocessPayload(value) ==
    IF "t" \notin DOMAIN value /\ "uiSchema" \in DOMAIN value THEN value
    ELSE [version           |-> JsUndefined,
          submitToAssistant |-> JsUndefined,
          submitMessage     |-> JsUndefined,
          uiSchema          |-> value]

\* the JSON documents a server answers with: envelopes, bare uiSchema
\* documents, documents the schema refuses, and values that are no object
Documents ==
    {P_local, P_tmpl, P_local.uiSchema, P_tmpl.uiSchema,
     P_noField, P_noField.uiSchema, P_layoutOnly, JsNull, JsNum(5)}

\* <SchemaForm uiSchema={state.data.uiSchema} /> (part_001 168): the props are
\* the uiSchema of the validated data and nothing else
runtimeProps(data) ==
    [version           |-> JsUndefined,
     submitToAssistant |-> JsUndefined,
     submitMessage     |-> JsUndefined,
     uiSchema          |-> [title   |-> data.uiSchema.title,
                            fields  |-> JsArr(data.uiSchema.fields),
                            layout  |-> JsUndefined,
                            actions |-> data.uiSchema.actions]]

\* the validated data of the documents the schema accepts
LoadedData ==
    {parsedData(preprocessPayload(doc)) :
        doc \in {d \in Documents : schemaFormSchema(preprocessPayload(d))}}

(***************************************************************************)
(* Spec: the first render and the event handlers of a mounted SchemaForm   *)
(***************************************************************************)
EmptyMap == <<>>

\* SchemaForm(props) up to the first render: the schema-error card when
\* safeParse fails (492-541), else the form with its initial state (543-550)
FormInit ==
    /\ \/ /\ props \in PropsInputs
          /\ ParkedLoad
       \/ \E data \in LoadedData :
             /\ props = runtimeProps(data)
             /\ url = S_urlA
             /\ loadState = Success(S_urlA, data)
             /\ requestIdRef = 1
             /\ pending = {}
             /\ loadEvent = "resolved"
    /\ view = IF schemaFormSchema(props) THEN "form" ELSE "schema-error"
    /\ formData = IF schemaFormSchema(props) THEN buildDefaults(Fields)
                  ELSE EmptyMap
    /\ errors = EmptyMap
    /\ suggestions = EmptyMap
    /\ submitted = FALSE
    /\ submitStatus = "idle"
    /\ sendCount = 0
    /\ lastSent = NotRun
    /\ inflight = <<>>
    /\ lastEvent = "mount"
    /\ ParkedCond
    /\ ParkedVer
    /\ ParkedField
    /\ ParkedFetch

\* updateValue(id, value) (557-575)
updateValue(id, value) ==
    /\ formData' = (id :> value) @@ formData
    /\ errors' = IF id \in DOMAIN errors THEN Without(errors, id) ELSE errors
    /\ suggestions' = IF id \in DOMAIN suggestions THEN Without(suggestions, id)
                      ELSE suggestions
    /\ lastEvent' = "update"
    /\ UNCHANGED <<props, view, submitted, submitStatus, sendCount, lastSent, inflight>>

\* onChange of a rendered, enabled input
TypeValue ==
    /\ view = "form"
    /\ \E i \in 1..Len(Fields) :
          /\ CanEdit(i)
          /\ Fields[i].type = "select" => Len(optionList(Fields[i])) > 0
          /\ \E v \in InputsFor(Fields[i]) :
                /\ v # Lookup(formData, Fields[i].id)
                /\ updateValue(Fields[i].id, v)
    /\ UNCHANGED <<condVars, verVars, fieldVars, fetchVars, loadVars>>

\* onClick of a suggestion button, shown under a rendered, enabled field that
\* has an error (772-788)
ClickSuggestion ==
    /\ view = "form"
    /\ \E i \in 1..Len(Fields) :
          /\ CanEdit(i)
          /\ Fields[i].id \in DOMAIN errors
          /\ Fields[i].id \in DOMAIN suggestions
          /\ \E k \in 1..Len(suggestions[Fields[i].id]) :
                updateValue(Fields[i].id, suggestions[Fields[i].id][k])
    /\ UNCHANGED <<condVars, verVars, fieldVars, fetchVars, loadVars>>

\* handleSubmit (608-641) with validate (577-598); the text handed to
\* sendThreadMessage is built from the payload, which is what the model keeps
Submit ==
    /\ view = "form"
    /\ CanPress("submit")
    /\ errors' = nextErrors(evalContext)
    /\ suggestions' = nextSuggestions(evalContext)
    /\ lastEvent' = "submit"
    /\ IF failing(evalContext) # {}
       THEN UNCHANGED <<submitted, submitStatus, sendCount, lastSent, inflight>>
       ELSE /\ submitted' = TRUE
            /\ IF ~Data.submitToAssistant
               THEN /\ submitStatus' = "idle"
                    /\ UNCHANGED <<sendCount, lastSent, inflight>>
               ELSE /\ sendCount < MaxSends
                    /\ submitStatus' = "sending"
                    /\ sendCount' = sendCount + 1
                    /\ lastSent' = [sentOf(evalContext) EXCEPT !.payload = @]
                                       @@ [seenSubmitted |-> submitted]
                    /\ inflight' = Append(inflight, sendCount + 1)
    /\ UNCHANGED <<props, view, formData, condVars, verVars, fieldVars, fetchVars, loadVars>>

\* reset (600-606)
Reset ==
    /\ view = "form"
    /\ CanPress("reset")
    /\ formData' = buildDefaults(Fields)
    /\ errors' = EmptyMap
    /\ suggestions' = EmptyMap
    /\ submitted' = FALSE
    /\ submitStatus' = "idle"
    /\ lastEvent' = "reset"
    /\ UNCHANGED <<props, view, sendCount, lastSent, inflight, condVars, verVars,
                   fieldVars, fetchVars, loadVars>>

RemoveAt(seq, k) == SubSeq(seq, 1, k - 1) \o SubSeq(seq, k + 1, Len(seq))

\* a mutant of settledStatus: a failed delivery is shown as sent
settledStatus_alwaysSent(delivered) == "sent"

\* the status a settled delivery sets (636-640)
settledStatus(delivered) == IF delivered THEN "sent" ELSE "error"

\* .then(() => setSubmitStatus("sent")) (636)
DeliverOk ==
    /\ \E k \in 1..Len(inflight) : inflight' = RemoveAt(inflight, k)
    /\ submitStatus' = settledStatus(TRUE)
    /\ lastEvent' = "delivered"
    /\ UNCHANGED <<props, view, formData, errors, suggestions, submitted, sendCount,
                   lastSent, condVars, verVars, fieldVars, fetchVars, loadVars>>

\* .catch(() => setSubmitStatus("error")) (637-640)
DeliverFail ==
    /\ \E k \in 1..Len(inflight) : inflight' = RemoveAt(inflight, k)
    /\ submitStatus' = settledStatus(FALSE)
    /\ lastEvent' = "failed"
    /\ UNCHANGED <<props, view, formData, errors, suggestions, submitted, sendCount,
                   lastSent, condVars, verVars, fieldVars, fetchVars, loadVars>>

\* the parent renders the mounted form with other props that the schema
\* accepts: safeParse and useMemo run again (489, 543-545), while every
\* useState keeps the state it has (546-550)
ChangeProps ==
    /\ view = "form"
    /\ loadState = NotRun
    /\ \E change \in PropsChanges :
          /\ props = change[1]
          /\ props' = change[2]
    /\ lastEvent' = "props"
    /\ UNCHANGED <<view, formData, errors, suggestions, submitted, submitStatus,
                   sendCount, lastSent, inflight, condVars, verVars, fieldVars,
                   fetchVars, loadVars>>

Next ==
    TypeValue \/ ClickSuggestion \/ Submit \/ Reset \/ DeliverOk \/ DeliverFail
    \/ ChangeProps

Spec == FormInit /\ [][Next]_vars

\* the forms of one or two fields
LiveInit == FormInit /\ props # P_main

\* the promise of sendThreadMessage settles: each call in flight is
\* delivered or fails
SpecLive == LiveInit /\ [][Next]_vars /\ WF_vars(DeliverOk \/ DeliverFail)

(***************************************************************************)
(* Claims about the mounted form                                           *)
(***************************************************************************)
\* the ids all of whose fields are not rendered in this context
HiddenIds(ctx) ==
    {id \in FieldIds(Fields) :
        \A i \in 1..Len(Fields) :
            Fields[i].id = id => ~visibilityOf(Fields[i], ctx).shouldRender}

\* the ids all of whose fields have a false condition with fallback "disabled"
DisabledIds(ctx) ==
    {id \in FieldIds(Fields) :
        \A i \in 1..Len(Fields) :
            Fields[i].id = id =>
                /\ ~evaluateCondition(Fields[i].condition, ctx)
                /\ Fields[i].fallback = JsStr(S_disabled)}

\* this state is the one a submit that called sendThreadMessage produced
JustSent == lastEvent = "submit" /\ submitStatus = "sending" /\ lastSent # NotRun

\* C1 (as stated): in every reachable state no field that is currently not
\* rendered has an entry in errors, and the payload of a submission has no key
\* of a field that was not rendered when the payload was built.
C1_HiddenNeverReported ==
    view = "form" =>
        /\ \A id \in HiddenIds(evalContext) : id \notin DOMAIN errors
        /\ JustSent =>
              \A id \in HiddenIds(evalContextOf(formData, lastSent.seenSubmitted)) :
                  id \notin DOMAIN lastSent.payload

\* C2: a field whose condition is false with fallback "disabled" is rendered,
\* and a submit neither records an error for it nor puts its key into the
\* payload, even when it is required and empty or holds an invalid value.
C2_DisabledExcluded ==
    [][lastEvent' = "submit" =>
          \A id \in DisabledIds(evalContext) :
              /\ \A i \in 1..Len(Fields) :
                    Fields[i].id = id => visibilityOf(Fields[i], evalContext).shouldRender
              /\ id \notin DOMAIN errors'
              /\ sendCount' > sendCount => id \notin DOMAIN lastSent'.payload]_vars

C2_Witness ==
    /\ props = P_main
    /\ JustSent
    /\ Lookup(formData, S_a) = JsStr(S_blank)
    /\ Lookup(formData, S_age) = JsNum(150)
    /\ S_age \in DisabledIds(evalContextOf(formData, lastSent.seenSubmitted))
    /\ S_age \notin DOMAIN errors
    /\ S_age \notin DOMAIN lastSent.payload

\* C10 (as stated): props whose version classifies as invalid or unsupported
\* are never rendered as a form: a diagnostic view is shown and no field is
\* edited or submitted.
C10_BadVersionBlocks ==
    (/\ props.version.t = "string"
     /\ getSchemaVersionInfo(props.version.s).status \in {"invalid", "unsupported"})
        => /\ view # "form"
           /\ lastEvent \notin {"update", "submit"}

\* The three shapes of a uiSchema, read off the props
HasFields(p) == p.uiSchema.fields.t = "array" /\ Len(p.uiSchema.fields.items) >= 1
HasLayout(p) == p.uiSchema.layout.t = "array" /\ Len(p.uiSchema.layout.items) >= 1

FieldsOnlyShape(p) == HasFields(p) /\ p.uiSchema.layout = JsUndefined
LayoutOnlyShape(p) == p.uiSchema.fields = JsUndefined /\ HasLayout(p)
FieldsAndLayoutShape(p) == HasFields(p) /\ HasLayout(p)

\* nothing but the shape could be wrong with these props
RestIsValid(p) ==
    /\ p.uiSchema.fields.t = "array" =>
          \A i \in 1..Len(p.uiSchema.fields.items) : fieldSchema(p.uiSchema.fields.items[i])
    /\ \A i \in 1..Len(p.uiSchema.actions) : actionSchema(p.uiSchema.actions[i])

\* C11 (as stated): props whose uiSchema has one of the three shapes (fields
\* only, layout only, fields and layout) and is otherwise valid are rendered as
\* a form, never as a schema error.
C11_ThreeShapesAccepted ==
    (/\ FieldsOnlyShape(props) \/ LayoutOnlyShape(props) \/ FieldsAndLayoutShape(props)
     /\ RestIsValid(props))
        => view = "form"

\* C12 (as stated): the ids of the fields of a rendered form are pairwise
\* distinct.
C12_IdsDistinct ==
    view = "form" =>
        \A i, j \in 1..Len(Fields) : Fields[i].id = Fields[j].id => i = j

\* the empty values: a blank or whitespace-only string, NaN, false
EmptyRaw(v) ==
    \/ v.t = "string" /\ \A k \in 1..Len(v.s) : v.s[k] = " "
    \/ v.t = "nan"
    \/ v = JsBool(FALSE)

\* field i is rendered and enabled, and is the only field with its id
EnabledAt(i) == visibilityOf(Fields[i], evalContext) = Visibility(TRUE, FALSE)
OnlyWithId(i) == \A j \in 1..Len(Fields) : Fields[j].id = Fields[i].id => j = i

FailsAt(i) ==
    /\ EnabledAt(i)
    /\ validateFieldValue(Fields[i], Lookup(formData, Fields[i].id)) # JsNull

RequiredEmptyAt(i) ==
    /\ EnabledAt(i)
    /\ Fields[i].required = JsBool(TRUE)
    /\ EmptyRaw(Lookup(formData, Fields[i].id))

\* C13: a submit while a rendered, enabled field fails validation records an
\* error under that field's id (its own message when no other field shares the
\* id; "<label> is required" for a required empty field) and is blocked:
\* submitted and submitStatus keep their values and sendThreadMessage is not
\* called.
C13_InvalidSubmitBlocked ==
    [][(/\ lastEvent' = "submit"
        /\ \E i \in 1..Len(Fields) : FailsAt(i) \/ RequiredEmptyAt(i))
          => /\ \A i \in 1..Len(Fields) :
                   FailsAt(i) =>
                       /\ Fields[i].id \in DOMAIN errors'
                       /\ OnlyWithId(i) =>
                             errors'[Fields[i].id] =
                                 validateFieldValue(Fields[i], Lookup(formData, Fields[i].id)).message
             /\ \A i \in 1..Len(Fields) :
                   RequiredEmptyAt(i) =>
                       /\ Fields[i].id \in DOMAIN errors'
                       /\ OnlyWithId(i) =>
                             errors'[Fields[i].id] = Message(Fields[i].label, "is required")
             /\ submitted' = submitted
             /\ submitStatus' = submitStatus
             /\ sendCount' = sendCount
             /\ inflight' = inflight
             /\ lastSent' = lastSent]_vars

C13_Witness ==
    /\ props = P_main
    /\ lastEvent = "submit"
    /\ Lookup(formData, S_a) = JsStr(S_yes)
    /\ Lookup(formData, S_b) = JsStr(S_blank)
    /\ errors[S_b] = Message(S_B, "is required")
    /\ ~submitted
    /\ submitStatus = "idle"
    /\ sendCount = 0

(***************************************************************************)
(* SpecField: validateFieldValue, normalizeSubmissionValue and             *)
(* closestOption applied to inputs drawn from bounded sets                 *)
(***************************************************************************)
S_admin == <<"a", "d", "m", "i", "n">>
S_user  == <<"u", "s", "e", "r">>
S_amdin == <<"a", "m", "d", "i", "n">>
S_xyz   == <<"x", "y", "z", "1", "2", "3", "z", "z", "z">>
S_5     == <<"5">>
S_50sp  == <<" ", "5", "0", " ">>
S_150   == <<"1", "5", "0">>
S_neg5  == <<"-", "5">>
S_yessp == <<" ", "y", "e", "s", " ">>
S_mail  == <<"a", "@", "b", ".", "c">>

Optional(S) == {JsUndefined} \cup S

NumberFields ==
    {[FieldBase EXCEPT !.id = S_age, !.label = S_Age, !.type = "number",
                       !.required = r, !.min = mn, !.max = mx] :
        r \in Optional({JsBool(TRUE)}),
        mn \in Optional({JsNum(18)}),
        mx \in Optional({JsNum(18), JsNum(99)})}

TextFields ==
    {[FieldBase EXCEPT !.id = S_a, !.label = S_A, !.type = ty, !.required = r,
                       !.minLength = lo, !.maxLength = hi, !.pattern = pat] :
        ty \in {"text", "textarea", "email"},
        r \in Optional({JsBool(TRUE)}),
        lo \in Optional({JsNum(2)}),
        hi \in Optional({JsNum(3)}),
        pat \in Optional({JsStr(S_patYes), JsStr(S_patBad)})}

ChoiceFields ==
    {[FieldBase EXCEPT !.id = S_t, !.label = S_T, !.type = ty, !.required = r,
                       !.options = os] :
        ty \in {"select", "checkbox"},
        r \in Optional({JsBool(TRUE), JsBool(FALSE)}),
        os \in Optional({JsArr(<<>>), JsArr(<<JsStr(S_yes), JsStr(S_no)>>)})}

FieldInputs == NumberFields \cup TextFields \cup ChoiceFields

RawValues ==
    {JsUndefined, JsNull, JsNaN, JsInf(FALSE), JsInf(TRUE), JsBool(TRUE), JsBool(FALSE)}
    \cup {JsNum(n) : n \in {-1, 0, 5, 17, 18, 50, 99, 100}}
    \cup {JsStr(s) : s \in {S_empty, S_blank, <<" ", " ">>, S_yes, S_yessp, S_abc, S_5,
                            S_50sp, S_150, S_neg5, S_Infinity, S_mail}}

\* longest received text that is enumerated letter by letter
MaxRecvLen == 3

RecvAlphabet == {"a", "B", "u", " "}

ReceivedInputs ==
    {JsUndefined, JsNull, JsNum(5), JsStr(S_empty),
     JsStr(S_amdin), JsStr(S_xyz), JsStr(S_admin)}
    \cup {JsStr(s) : s \in UNION {[1..k -> RecvAlphabet] : k \in 1..MaxRecvLen}}

OptionInputs ==
    {<<>>, <<S_admin, S_user>>, <<S_user, S_admin>>, <<<<"a", "b">>, <<"B", "a">>>>,
     <<<<"U">>, <<"u">>, <<"a">>>>, <<<<"a", "b", "u", "a", "b", "u">>>>}

FieldInit ==
    /\ \/ /\ fieldIn \in FieldInputs
          /\ valueIn \in RawValues
          /\ recvIn = NotRun
          /\ optsIn = <<>>
       \/ /\ fieldIn = NotRun
          /\ valueIn = NotRun
          /\ recvIn \in ReceivedInputs
          /\ optsIn \in OptionInputs
    /\ validOut = NotRun
    /\ normOut = NotRun
    /\ closestOut = NotRun
    /\ ParkedCond
    /\ ParkedVer
    /\ ParkedForm
    /\ ParkedFetch
    /\ ParkedLoad

ValidateStep ==
    /\ fieldIn # NotRun
    /\ validOut = NotRun
    /\ validOut' = validateFieldValue(fieldIn, valueIn)
    /\ UNCHANGED <<fieldIn, valueIn, normOut, recvIn, optsIn, closestOut,
                   condVars, verVars, formVars, fetchVars, loadVars>>

NormalizeStep ==
    /\ fieldIn # NotRun
    /\ normOut = NotRun
    /\ normOut' = normalizeSubmissionValue(fieldIn, valueIn)
    /\ UNCHANGED <<fieldIn, valueIn, validOut, recvIn, optsIn, closestOut,
                   condVars, verVars, formVars, fetchVars, loadVars>>

ClosestStep ==
    /\ recvIn # NotRun
    /\ closestOut = NotRun
    /\ closestOut' = closestOption(recvIn, optsIn)
    /\ UNCHANGED <<fieldIn, valueIn, validOut, normOut, recvIn, optsIn,
                   condVars, verVars, formVars, fetchVars, loadVars>>

FieldNext == ValidateStep \/ NormalizeStep \/ ClosestStep

SpecField == FieldInit /\ [][FieldNext]_vars

(***************************************************************************)
(* Claims about the field functions                                        *)
(***************************************************************************)
\* a raw value that counts as empty: undefined, null, a blank or whitespace-only
\* string, NaN, false
IsEmptyRaw(v) == v \in {JsUndefined, JsNull} \/ EmptyRaw(v)

\* the text, apart from surrounding white space, is an optionally signed run of
\* decimal digits
Unsigned(s) == IF s # <<>> /\ Head(s) \in {"-", "+"} THEN Tail(s) ELSE s

IsFiniteNumeral(s) == AllDigits(Unsigned(trim(s)))

NumeralValue(s) ==
    IF Head(trim(s)) = "-" THEN -DecimalValue(Unsigned(trim(s)))
    ELSE DecimalValue(Unsigned(trim(s)))

\* the raw value is, or spells, a finite number; and that number
ParsesFinite(v) == v.t = "number" \/ (v.t = "string" /\ IsFiniteNumeral(v.s))

FiniteValue(v) == IF v.t = "number" THEN v.n ELSE NumeralValue(v.s)

\* C14 (as stated): for a number field and a non-empty value, validateFieldValue
\* returns an error when the value does not parse to a finite number,
\* "<label> must be at least <min>" with suggestions [min] below min,
\* "<label> must be at most <max>" with suggestions [max] above max, and no
\* error for a finite number within the bounds.
C14_NumberRules ==
    (validOut # NotRun /\ fieldIn.type = "number" /\ ~IsEmptyRaw(valueIn)) =>
        IF ~ParsesFinite(valueIn) THEN validOut # JsNull
        ELSE IF fieldIn.min # JsUndefined /\ FiniteValue(valueIn) < fieldIn.min.n
        THEN validOut = Validation(MessageN(fieldIn.label, "must be at least",
                                            fieldIn.min.n), <<fieldIn.min>>)
        ELSE IF fieldIn.max # JsUndefined /\ FiniteValue(valueIn) > fieldIn.max.n
        THEN validOut = Validation(MessageN(fieldIn.label, "must be at most",
                                            fieldIn.max.n), <<fieldIn.max>>)
        ELSE validOut = JsNull

\* the Levenshtein distance: the least number of insertions, deletions and
\* substitutions of one character that turn s into u
RECURSIVE EditDistance(_, _)
EditDistance(s, u) ==
    IF s = <<>> THEN Len(u)
    ELSE IF u = <<>> THEN Len(s)
    ELSE IF Head(s) = Head(u) THEN EditDistance(Tail(s), Tail(u))
    ELSE 1 + Min3(EditDistance(Tail(s), u), EditDistance(s, Tail(u)),
                  EditDistance(Tail(s), Tail(u)))

\* C15: closestOption returns an option at the least Levenshtein distance from
\* the trimmed, lower-cased received text (options lower-cased) when that
\* distance is at most max(3, floor(len/2)), and nothing when it is larger, when
\* the received value is not a string or is blank, or when there is no option;
\* "amdin" against [admin, user] gives "admin", "xyz123zzz" gives nothing.
C15_ClosestIsNearest ==
    closestOut # NotRun =>
        LET isText  == recvIn.t = "string"
            n       == IF isText THEN toLowerCase(trim(recvIn.s)) ELSE <<>>
            dist(i) == EditDistance(n, toLowerCase(optsIn[i]))
            bound   == MaxOf(3, Len(n) \div 2)
            nothing == \/ ~isText
                       \/ n = <<>>
                       \/ optsIn = <<>>
                       \/ \A i \in 1..Len(optsIn) : dist(i) > bound
        IN  /\ IF nothing THEN closestOut = JsNull
               ELSE /\ closestOut.t = "string"
                    /\ \E i \in 1..Len(optsIn) :
                          /\ optsIn[i] = closestOut.s
                          /\ \A j \in 1..Len(optsIn) : dist(i) <= dist(j)
            /\ (recvIn = JsStr(S_amdin) /\ optsIn = <<S_admin, S_user>>)
                  => closestOut = JsStr(S_admin)
            /\ (recvIn = JsStr(S_xyz) /\ optsIn = <<S_admin, S_user>>)
                  => closestOut = JsNull

C15_Witness ==
    /\ recvIn = JsStr(S_amdin)
    /\ optsIn = <<S_user, S_admin>>
    /\ closestOut = JsStr(S_admin)

\* C16: normalizeSubmissionValue returns undefined (the key is then left out of
\* the payload) or a value that is neither the empty string nor NaN, for every
\* field type and raw value.
C16_NoEmptyOrNaN ==
    normOut # NotRun =>
        \/ normOut = JsUndefined
        \/ normOut # JsStr(<<>>) /\ normOut # JsNaN

C16_Witness ==
    /\ valueIn = JsStr(S_abc)
    /\ normOut = JsUndefined
    /\ fieldIn.type = "number"

\* the raw value is, or spells, a number (an infinity included); and that number
ParsesNumber(v) ==
    \/ v.t \in {"number", "infinity"}
    \/ v.t = "string" /\ (IsFiniteNumeral(v.s) \/ Unsigned(trim(v.s)) = S_Infinity)

NumberValue(v) ==
    IF v.t \in {"number", "infinity"} THEN v
    ELSE IF IsFiniteNumeral(v.s) THEN JsNum(NumeralValue(v.s))
    ELSE JsInf(Head(trim(v.s)) = "-")

TextOf(v) == IF v \in {JsUndefined, JsNull} THEN <<>> ELSE jsString(v)

\* C17 (as stated): normalizeSubmissionValue gives, for a checkbox, the boolean
\* coercion; for a number, the parsed number, and undefined when the raw value
\* is empty (a blank or whitespace-only string included) or does not parse; for
\* any other type, the trimmed string, and undefined when that is empty.
C17_NormalizeByType ==
    normOut # NotRun =>
        IF fieldIn.type = "checkbox" THEN normOut = JsBool(Truthy(valueIn))
        ELSE IF fieldIn.type = "number"
        THEN IF IsEmptyRaw(valueIn) \/ ~ParsesNumber(valueIn) THEN normOut = JsUndefined
             ELSE normOut = NumberValue(valueIn)
        ELSE IF trim(TextOf(valueIn)) = <<>> THEN normOut = JsUndefined
        ELSE normOut = JsStr(trim(TextOf(valueIn)))

\* s with every occurrence of pat replaced by repl, left to right
RECURSIVE ReplaceAll(_, _, _)
ReplaceAll(s, pat, repl) ==
    IF Len(s) < Len(pat) THEN s
    ELSE IF SubSeq(s, 1, Len(pat)) = pat
         THEN repl \o ReplaceAll(SubSeq(s, Len(pat) + 1, Len(s)), pat, repl)
         ELSE <<Head(s)>> \o ReplaceAll(Tail(s), pat, repl)

HasPlaceholder(text) ==
    \E i \in 1..(Len(text) - Len(S_placeholder) + 1) :
        SubSeq(text, i, i + Len(S_placeholder) - 1) = S_placeholder

\* C18 (as stated): the text handed to sendThreadMessage is, for a submitMessage
\* that contains {{json}}, the template with every occurrence of {{json}}
\* replaced by the pretty-printed JSON of the payload; and, with no
\* submitMessage, the default message with the title and that JSON.
C18_MessageFromTemplate ==
    (view = "form" /\ lastSent # NotRun) =>
        /\ (props.submitMessage.t = "string" /\ HasPlaceholder(props.submitMessage.s))
              => lastSent.message
                    = ReplaceAll(props.submitMessage.s, S_placeholder, lastSent.json)
        /\ props.submitMessage = JsUndefined
              => lastSent.message = defaultMessage(props.uiSchema.title, lastSent.json)

\* the default of a field: its default if given, else false for a checkbox,
\* else the empty string
DefaultFor(field) ==
    IF field.default # JsUndefined THEN field.default
    ELSE IF field.type = "checkbox" THEN JsBool(FALSE)
    ELSE JsStr(<<>>)

\* C19: reset leaves the form state at the defaults (an entry per field id, each
\* field's own default when no other field shares its id), errors and
\* suggestions empty, submitted false and submitStatus idle; a reset right after
\* a reset changes nothing.
C19_ResetRestores ==
    [][lastEvent' = "reset" =>
          /\ DOMAIN formData' = FieldIds(Fields)
          /\ \A i \in 1..Len(Fields) :
                OnlyWithId(i) => formData'[Fields[i].id] = DefaultFor(Fields[i])
          /\ DOMAIN errors' = {}
          /\ DOMAIN suggestions' = {}
          /\ submitted' = FALSE
          /\ submitStatus' = "idle"
          /\ lastEvent = "reset" =>
                /\ formData' = formData
                /\ errors' = errors
                /\ suggestions' = suggestions
                /\ submitted' = submitted
                /\ submitStatus' = submitStatus]_vars

C19_Witness ==
    /\ props = P_tmpl
    /\ lastEvent = "reset"
    /\ sendCount = 1
    /\ Lookup(formData, S_a) = JsStr(S_yes)
    /\ DOMAIN errors = {}
    /\ ~submitted
    /\ submitStatus = "idle"

\* C24: validateFieldValue tests emptiness before every rule of the type: for
\* an empty value a required field gets exactly the error "<label> is
\* required", with the options as suggestions when it is a select that has
\* options and with none otherwise, and a field that is not required gets no
\* error, whatever its type, min and max, minLength and maxLength, pattern,
\* or missing options.
C24_EmptinessFirst ==
    (validOut # NotRun /\ IsEmptyRaw(valueIn)) =>
        validOut = IF fieldIn.required = JsBool(TRUE)
                   THEN Validation(Message(fieldIn.label, "is required"),
                                   IF fieldIn.type = "select"
                                      /\ fieldIn.options = JsArr(<<JsStr(S_yes), JsStr(S_no)>>)
                                   THEN <<JsStr(S_yes), JsStr(S_no)>> ELSE <<>>)
                   ELSE JsNull

C24_Witness ==
    /\ validOut = JsNull
    /\ valueIn = JsStr(S_blank)
    /\ fieldIn.required = JsUndefined
    /\ fieldIn.type = "email"
    /\ fieldIn.minLength = JsNum(2)
    /\ fieldIn.pattern = JsStr(S_patYes)

(***************************************************************************)
(* Claims about delivery, frames and props of the mounted form             *)
(***************************************************************************)
\* the calls of sendThreadMessage that have not settled
InFlight == {inflight[k] : k \in 1..Len(inflight)}

\* this step is a submit that passes validation with submitToAssistant on
PassingSend ==
    lastEvent' = "submit" /\ failing(evalContext) = {} /\ Data.submitToAssistant

\* this step is the settling of a delivery
Settles == lastEvent' \in {"delivered", "failed"}

\* C22: each submit that passes validation with submitToAssistant enabled
\* calls the message sink exactly once, and no other step calls it (no retry,
\* also after a failure); the submit sets submitStatus to sending while the
\* call is still in flight; every call in flight eventually settles, and the
\* step that settles it sets submitStatus to sent when it was delivered and to
\* error when it failed, without touching the submitted flag or the errors.
C22_DeliveryReported ==
    /\ [][/\ PassingSend => /\ sendCount' = sendCount + 1
                            /\ submitStatus' = "sending"
                            /\ inflight' = Append(inflight, sendCount + 1)
          /\ sendCount' # sendCount => PassingSend
          /\ Settles => /\ submitStatus' = (IF lastEvent' = "delivered" THEN "sent"
                                            ELSE "error")
                        /\ submitted' = submitted
                        /\ errors' = errors
                        /\ sendCount' = sendCount
                        /\ Len(inflight') = Len(inflight) - 1
          /\ inflight' # inflight => (PassingSend \/ Settles)]_vars
    /\ \A k \in 1..MaxSends : (k \in InFlight) ~> (k \notin InFlight)

C22_Witness ==
    /\ lastEvent = "failed"
    /\ submitStatus = "error"
    /\ submitted
    /\ sendCount = 2
    /\ inflight = <<>>

\* the map after differs from the map before at most at the key id, which it
\* holds
SetsOnly(before, after, id) ==
    /\ DOMAIN after = DOMAIN before \cup {id}
    /\ \A k \in DOMAIN before \ {id} : after[k] = before[k]

\* the map after is the map before without the key id
DropsOnly(before, after, id) ==
    /\ DOMAIN after = DOMAIN before \ {id}
    /\ \A k \in DOMAIN after : after[k] = before[k]

\* C25: the form values change only in an update or a reset. An update of the
\* field id gives it its value and removes the error and the suggestions of
\* id, and leaves the value, the error and the suggestions of every other
\* field, the submitted flag and submitStatus as they were; a submit changes
\* no form value.
C25_UpdateFrame ==
    [][/\ lastEvent' = "update" =>
             \E id \in DOMAIN formData' :
                /\ SetsOnly(formData, formData', id)
                /\ DropsOnly(errors, errors', id)
                /\ DropsOnly(suggestions, suggestions', id)
                /\ submitted' = submitted
                /\ submitStatus' = submitStatus
       /\ formData' # formData => lastEvent' \in {"update", "reset"}
       /\ lastEvent' = "submit" => formData' = formData]_vars

C25_Witness ==
    /\ lastEvent = "update"
    /\ props = P_main
    /\ Lookup(formData, S_b) = JsStr(S_yes)
    /\ S_b \notin DOMAIN errors
    /\ S_age \in DOMAIN errors
    /\ S_age \in DOMAIN suggestions

\* C26: the settling of a delivery that a later reset or a later submit has
\* overtaken does not change submitStatus: while submitted is false the
\* status is never sent or error, and the settling of a call that is not the
\* latest call of sendThreadMessage leaves the status as it is.
C26_LateCompletionIgnored ==
    [][/\ ~submitted' => submitStatus' \notin {"sent", "error"}
       /\ \A k \in InFlight \ {inflight'[j] : j \in 1..Len(inflight')} :
             k # sendCount => submitStatus' = submitStatus]_vars

\* the schema payload of this form sets submitToAssistant to false: the props
\* when the form was mounted directly, the loaded data when RuntimeSchemaForm
\* mounted it
OptsOut ==
    IF loadState = NotRun THEN props.submitToAssistant = JsBool(FALSE)
    ELSE ~loadState.data.submitToAssistant

\* C28: for a schema payload that sets submitToAssistant to false no submit
\* calls the message sink and submitStatus stays idle, whether the payload was
\* passed to SchemaForm directly or loaded through RuntimeSchemaForm.
C28_OptOutNeverSends == OptsOut => (sendCount = 0 /\ submitStatus = "idle")

\* C29: in every state of a mounted form, also after its props changed to a
\* schema with another field list, the form state holds an entry for every
\* field of the current schema, so that no field is validated or submitted
\* against a missing value.
C29_EntryForEveryField ==
    view = "form" => \A i \in 1..Len(Fields) : Fields[i].id \in DOMAIN formData

(***************************************************************************)
(* SpecLoader: RuntimeSchemaForm (part_001 57-169) over loadAndValidateJson *)
(* (part_002 100-115)                                                      *)
(***************************************************************************)
S_slash == <<"/">>
S_http  == <<"h", "t", "t", "p", ":", "/", "/">>
S_https == <<"h", "t", "t", "p", "s", ":", "/", "/">>

\* isSupportedSchemaUrl (part_002 24-27)
isSupportedSchemaUrl(u) ==
    IF startsWith(u, <<"/", "/">>) THEN FALSE
    ELSE startsWith(u, S_slash) \/ startsWith(u, S_https) \/ startsWith(u, S_http)

RawUrlInputs == {S_urlA, S_urlB, <<" ", "/", "a">>, S_blank, S_empty, <<"x">>}

\* most requests issued in one run
MaxRequests == 3

\* ---- the load pipeline (part_002 38-115, part_001 48-55) ----

\* how a call settles: with the validated data, or rejected with a
\* SchemaLoadError of some kind; requested tells whether fetch was called
Fulfilled(data)           == [ok |-> TRUE, data |-> data, requested |-> TRUE]
Rejected(kind, requested) == [ok |-> FALSE, kind |-> kind, requested |-> requested]

\* response.ok
responseOk(status) == status >= 200 /\ status <= 299

\* /json/i.test(contentType), the header read with ?? "" (part_002 84-85)
S_json == <<"j", "s", "o", "n">>
isJsonContentType(header) ==
    includesText(toLowerCase(IF header = JsNull THEN S_empty ELSE header.s), S_json)

\* validateJsonPayload(payload, schemaFormRuntimePayloadSchema) (part_002 38-53)
validateJsonPayload(payload) ==
    IF ~schemaFormSchema(preprocessPayload(payload))
    THEN Rejected("validation", TRUE)
    ELSE Fulfilled(parsedData(preprocessPayload(payload)))

\* fetchJson (part_002 55-98) in the world w: w.fetch is how fetch settles,
\* w.status and w.contentType are the response's, w.body is how
\* response.json() settles
fetchJson(u, w) ==
    IF w.fetch = "AbortError" THEN Rejected("aborted", TRUE)
    ELSE IF w.fetch # "response" THEN Rejected("network", TRUE)
    ELSE IF ~responseOk(w.status) THEN Rejected("http", TRUE)
    ELSE IF ~isJsonContentType(w.contentType) THEN Rejected("invalid-json", TRUE)
    ELSE IF w.body.read # "value" THEN Rejected("invalid-json", TRUE)
    ELSE [ok |-> TRUE, value |-> w.body.value]

\* loadAndValidateJson(url, schemaFormRuntimePayloadSchema, signal)
\* (part_002 100-115)
loadAndValidateJson(u, w) ==
    IF ~isSupportedSchemaUrl(u) THEN Rejected("invalid-url", FALSE)
    ELSE IF ~fetchJson(u, w).ok THEN fetchJson(u, w)
    ELSE validateJsonPayload(fetchJson(u, w).value)

S_appJson  == <<"a", "/", "j", "s", "o", "n">>
S_appJSON  == <<"a", "/", "J", "S", "O", "N">>
S_ldJson   == <<"l", "d", "+", "j", "s", "o", "n", ";", "u">>
S_textHtml == <<"t", "/", "h", "t", "m", "l">>
ContentTypes == {JsNull, JsStr(S_empty), JsStr(S_appJson), JsStr(S_appJSON),
                 JsStr(S_ldJson), JsStr(S_textHtml)}
Statuses == {200, 204, 299, 199, 304, 404, 500}
Bodies ==
    {[read |-> "AbortError"], [read |-> "SyntaxError"]}
    \cup {[read |-> "value", value |-> doc] : doc \in Documents}

\* what the network can do with a request: fetch rejects with an AbortError
\* or a TypeError, or answers; an abort can happen only when the
\* signal was aborted
Worlds(aborted) ==
    {w \in [fetch : {"AbortError", "TypeError", "response"}, status : Statuses,
            contentType : ContentTypes, body : Bodies] :
        aborted \/ (w.fetch # "AbortError" /\ w.body.read # "AbortError")}

\* how the call of the request r can settle. An abort that arrives while the
\* body is read surfaces as invalid-json (part_002 93-97), and a request that
\* completes before the abort settles as if it had not been aborted.
Outcomes(r) == {loadAndValidateJson(r.url, w) : w \in Worlds(r.aborted)}

\* ---- the pure-function harness of loadAndValidateJson (SpecFetch) ----
FetchUrlInputs ==
    {S_urlA, <<"/", "/", "a">>, S_http \o <<"x">>, S_https \o <<"x">>, <<"x">>,
     S_empty, <<"h", "t", "t", "p", ":", "/", "x">>, <<" ", "/", "a">>}

FetchInit ==
    /\ urlIn \in FetchUrlInputs
    /\ worldIn \in Worlds(TRUE)
    /\ fetchOut = NotRun
    /\ ParkedCond
    /\ ParkedVer
    /\ ParkedForm
    /\ ParkedField
    /\ ParkedLoad

FetchStep ==
    /\ fetchOut = NotRun
    /\ fetchOut' = loadAndValidateJson(urlIn, worldIn)
    /\ UNCHANGED <<urlIn, worldIn, condVars, verVars, formVars, fieldVars, loadVars>>

FetchNext == FetchStep

SpecFetch == FetchInit /\ [][FetchNext]_vars

\* the URLs the pipeline is to refuse: those that start with "//" and those
\* that start with none of "/", "http://", "https://"
UrlRefused(u) ==
    \/ (Len(u) >= 2 /\ u[1] = "/" /\ u[2] = "/")
    \/ ~ \E prefix \in {S_slash, S_http, S_https} :
            /\ Len(u) >= Len(prefix)
            /\ \A i \in 1..Len(prefix) : u[i] = prefix[i]

\* the content types that name JSON
JsonTypes == {JsStr(S_appJson), JsStr(S_appJSON), JsStr(S_ldJson)}

\* the request was aborted: fetch was cut off, or the reading of the body was
BodyIsRead(w) ==
    w.fetch = "response" /\ w.status \in 200..299 /\ w.contentType \in JsonTypes
AbortedAtFetch(w) == w.fetch = "AbortError"
AbortedAtBody(w)  == BodyIsRead(w) /\ w.body.read = "AbortError"

\* the outcome named for the url u in the world w, the abort of the body
\* read classified as body
Classified(u, w, body) ==
    IF UrlRefused(u) THEN Rejected("invalid-url", FALSE)
    ELSE IF AbortedAtFetch(w) THEN Rejected("aborted", TRUE)
    ELSE IF AbortedAtBody(w) THEN Rejected(body, TRUE)
    ELSE IF w.fetch # "response" THEN Rejected("network", TRUE)
    ELSE IF w.status \notin 200..299 THEN Rejected("http", TRUE)
    ELSE IF w.contentType \notin JsonTypes \/ w.body.read = "SyntaxError"
         THEN Rejected("invalid-json", TRUE)
    ELSE IF w.body.value \notin {P_local, P_tmpl, P_local.uiSchema, P_tmpl.uiSchema}
         THEN Rejected("validation", TRUE)
    ELSE Fulfilled(parsedData(IF w.body.value \in {P_local, P_tmpl} THEN w.body.value
                              ELSE [P_main EXCEPT !.uiSchema = w.body.value]))

\* C21: every call of loadAndValidateJson ends in exactly one classified
\* outcome: an unsupported URL is invalid-url and no GET is issued; a request
\* that was aborted is aborted; any other fetch failure is network; a non-2xx
\* status is http, whatever the content type; a content type that is not JSON
\* or a body that does not parse is invalid-json; a parsed body the schema
\* refuses is validation; otherwise the validated schema is returned.
C21_LoadClassified ==
    fetchOut # NotRun => fetchOut = Classified(urlIn, worldIn, "aborted")

\* the documents of the model that are objects with a uiSchema key
HasUiSchemaKey(doc) == doc \in {P_local, P_tmpl, P_noField, P_layoutOnly}

\* {uiSchema: doc}
Envelope(doc) ==
    [version |-> JsUndefined, submitToAssistant |-> JsUndefined,
     submitMessage |-> JsUndefined, uiSchema |-> doc]

\* what schemaFormSchema makes of the object p
Validated(p) ==
    IF schemaFormSchema(p) THEN Fulfilled(parsedData(p))
    ELSE Rejected("validation", TRUE)

\* C23: a loaded payload that is an object with a uiSchema key is validated as
\* it is, any other payload is validated as {uiSchema: payload}; hence a
\* payload without the key, a bare valid uiSchema document among them, ends as
\* the same payload wrapped in the envelope does.
C23_BareIsWrapped ==
    (/\ fetchOut # NotRun
     /\ ~UrlRefused(urlIn)
     /\ BodyIsRead(worldIn)
     /\ worldIn.body.read = "value")
    => LET doc == worldIn.body.value
       IN  /\ fetchOut = Validated(IF HasUiSchemaKey(doc) THEN doc ELSE Envelope(doc))
           /\ ~HasUiSchemaKey(doc) =>
                 fetchOut = loadAndValidateJson(
                                urlIn, [worldIn EXCEPT !.body.value = Envelope(doc)])

C23_Witness ==
    /\ fetchOut # NotRun
    /\ fetchOut.ok
    /\ worldIn.body = [read |-> "value", value |-> P_local.uiSchema]
    /\ fetchOut.data = parsedData(Envelope(P_local.uiSchema))
    /\ fetchOut.data.submitToAssistant

\* a mutant of isStale: no completion is taken for stale
isStale_never(requestId) == FALSE

\* if (requestId !== requestIdRef.current) return;  (part_001 77, 91)
isStale(requestId) == requestId # requestIdRef

\* the effect body (part_001 65-73) for the url u
runEffect(u) ==
    IF u = <<>>
    THEN /\ loadState' = Idle
         /\ UNCHANGED requestIdRef
         /\ pending' = {[r EXCEPT !.aborted = TRUE] : r \in pending}
    ELSE /\ requestIdRef' = requestIdRef + 1
         /\ loadState' = Loading(u)
         /\ pending' = {[r EXCEPT !.aborted = TRUE] : r \in pending}
                       \cup {[id |-> requestIdRef + 1, url |-> u, aborted |-> FALSE]}

\* the first render and the first run of the effect
LoadInit ==
    /\ \E raw \in RawUrlInputs :
          /\ url = trim(raw)
          /\ IF trim(raw) = <<>>
             THEN loadState = Idle /\ requestIdRef = 0 /\ pending = {}
             ELSE /\ loadState = Loading(trim(raw))
                  /\ requestIdRef = 1
                  /\ pending = {[id |-> 1, url |-> trim(raw), aborted |-> FALSE]}
    /\ loadEvent = "mount"
    /\ ParkedCond
    /\ ParkedVer
    /\ ParkedForm
    /\ ParkedField
    /\ ParkedFetch

\* the debounced, trimmed schemaUrl changes: the cleanup of the previous effect
\* aborts its controller (part_001 111-113), then the effect runs again. A call
\* with an unsupported URL has been rejected by then: it throws before its
\* first await (part_002 105-111), and the URL changes in a later task.
ChangeUrl ==
    /\ requestIdRef < MaxRequests
    /\ \A r \in pending : isSupportedSchemaUrl(r.url)
    /\ \E raw \in RawUrlInputs :
          /\ trim(raw) # url
          /\ url' = trim(raw)
          /\ runEffect(trim(raw))
    /\ loadEvent' = "url"
    /\ UNCHANGED <<condVars, verVars, formVars, fieldVars, fetchVars>>

\* .then((data) => ...) of a settled call (part_001 76-82)
LoadResolved ==
    /\ \E r \in pending :
          /\ pending' = pending \ {r}
          /\ \E o \in Outcomes(r) :
                /\ o.ok
                /\ loadState' = IF isStale(r.id) THEN loadState ELSE Success(r.url, o.data)
    /\ loadEvent' = "resolved"
    /\ UNCHANGED <<url, requestIdRef, condVars, verVars, formVars, fieldVars, fetchVars>>

\* .catch((error) => ...) of a settled call (part_001 83-109)
LoadRejected ==
    /\ \E r \in pending :
          /\ pending' = pending \ {r}
          /\ \E o \in Outcomes(r) :
                /\ ~o.ok
                /\ loadState' =
                      IF o.kind = "aborted" THEN loadState
                      ELSE IF isStale(r.id) THEN loadState
                      ELSE Failed(r.url, o.kind)
    /\ loadEvent' = "rejected"
    /\ UNCHANGED <<url, requestIdRef, condVars, verVars, formVars, fieldVars, fetchVars>>

LoadNext == ChangeUrl \/ LoadResolved \/ LoadRejected

SpecLoader == LoadInit /\ [][LoadNext]_vars

\* C20: once the URL has changed to another URL while a load was in flight, the
\* completion of that load (a success, or an error of any kind) leaves the
\* loader state as it is; and while the URL is not empty, a state that shows
\* loading, success or error shows it for the current URL.
C20_StaleLoadIgnored ==
    [][/\ \A r \in pending \ pending' :
             (r.aborted /\ url # <<>>) => loadState' = loadState
       /\ (url' # <<>> /\ loadState'.status # "idle") => loadState'.url = url']_vars

C20_Witness ==
    /\ loadEvent = "resolved"
    /\ url = S_urlB
    /\ loadState = Loading(S_urlB)
    /\ requestIdRef = 2
    /\ pending = {[id |-> 2, url |-> S_urlB, aborted |-> FALSE]}

\* C27: while the schema URL is empty (after trimming) the loader state is
\* idle: it is idle once the URL becomes empty and stays idle until a URL that
\* is not empty is supplied, also when a request that was in flight when the
\* URL was cleared completes with a success or with an error other than an
\* abort.
C27_EmptyUrlStaysIdle == url = <<>> => loadState = Idle

====
